---------------------------- MODULE Spec2Model ----------------------------
(***************************************************************************)
(* Model of the intake / validation / scheduling pipeline of the FPP SMS   *)
(* plugin (src/sms_plugin.py): the Twilio poll loop with its cursor, the   *)
(* gate chain, the mtime-cached policy lists, the audit log file, the      *)
(* display queue and the display worker.                                   *)
(*                                                                         *)
(* Text is modelled as a sequence of one-character strings, so that the    *)
(* regular expressions and str methods of the source are computed and not  *)
(* assumed.                                                                *)
(***************************************************************************)
EXTENDS Integers, Sequences, FiniteSets, TLC

(***************************************************************************)
(* Bounds of the model.                                                    *)
(***************************************************************************)
\* number of inbound messages the provider receives in one run
MaxMsgs == 2
\* number of messages that leave the provider's window in one run
MaxAged == 1
\* number of calendar-day changes in one run
MaxDay == 1
\* number of candidates submitted through /api/test/message in one run
MaxSubmits == 1
\* number of block / unblock requests in one run
MaxBlockOps == 2
\* number of times the audit history is cleared in one run
MaxClears == 1
\* requests to FPP that fail
MaxFailures == 1

\* get_queue_status requests
MaxSnapshots == 1

\* api_get_blocklist requests
MaxReads == 1

\* polls in which twilio_client.messages.list raises
MaxOutages == 1

\* batches that end in an exception while a message is processed
MaxRaises == 2

\* calls of add_to_queue that return False
MaxEnqueueFailures == 1

\* block / unblock requests that other requests can overlap
MaxBlockCalls == 1

\* changes the operator makes to whitelist.txt and blacklist.txt
MaxEdits == 2

\* calls of save_last_sid that fail
MaxSaveFailures == 2

\* number of entries log_message keeps (logs[-100:] in the source, scaled down
\* so that a run reaches the truncation)
LogCap == 2

(***************************************************************************)
(* Characters and the str methods the source uses.                         *)
(***************************************************************************)
LowerLetters == <<"a","b","c","d","e","f","g","h","i","j","k","l","m",
                  "n","o","p","q","r","s","t","u","v","w","x","y","z">>

UpperLetters == <<"A","B","C","D","E","F","G","H","I","J","K","L","M",
                  "N","O","P","Q","R","S","T","U","V","W","X","Y","Z">>

Digits == {"0","1","2","3","4","5","6","7","8","9"}

Range(s) == {s[i] : i \in DOMAIN s}

LowerSet == Range(LowerLetters)

UpperSet == Range(UpperLetters)

IsLetter(c) == c \in LowerSet \cup UpperSet

\* \s of the re module and the characters str.strip() / str.split() drop
IsSpace(c) == c = " "

\* \w of the re module
IsWordChar(c) == IsLetter(c) \/ c \in Digits \/ c = "_"

LowerOf == [c \in UpperSet |-> LowerLetters[CHOOSE i \in DOMAIN UpperLetters : UpperLetters[i] = c]]

UpperOf == [c \in LowerSet |-> UpperLetters[CHOOSE i \in DOMAIN LowerLetters : LowerLetters[i] = c]]

LowerChar(c) == IF c \in UpperSet THEN LowerOf[c] ELSE c

UpperChar(c) == IF c \in LowerSet THEN UpperOf[c] ELSE c

\* str.lower()
Lower(s) == [i \in DOMAIN s |-> LowerChar(s[i])]

\* str.title(): a letter is upper-cased when the character before it is not
\* a letter and lower-cased otherwise
Title(s) == [i \in DOMAIN s |->
               IF IsLetter(s[i])
               THEN IF i = 1 \/ ~IsLetter(s[i-1]) THEN UpperChar(s[i]) ELSE LowerChar(s[i])
               ELSE s[i]]

RECURSIVE LStrip(_)
LStrip(s) == IF s # <<>> /\ IsSpace(Head(s)) THEN LStrip(Tail(s)) ELSE s

RECURSIVE RStrip(_)
RStrip(s) == IF s # <<>> /\ IsSpace(s[Len(s)]) THEN RStrip(SubSeq(s, 1, Len(s)-1)) ELSE s

\* str.strip()
Strip(s) == RStrip(LStrip(s))

\* s[:n]
Truncate(s, n) == IF Len(s) > n THEN SubSeq(s, 1, n) ELSE s

\* the characters re.sub(r'[^a-zA-Z\s-]', '', ...) keeps
IsNameChar(c) == IsLetter(c) \/ IsSpace(c) \/ c = "-"

RECURSIVE KeepNameChars(_)
KeepNameChars(s) ==
    IF s = <<>> THEN <<>>
    ELSE IF IsNameChar(Head(s)) THEN <<Head(s)>> \o KeepNameChars(Tail(s))
         ELSE KeepNameChars(Tail(s))

\* number of whitespace-separated words: len(text.split())
WordCount(s) == Cardinality({i \in DOMAIN s : ~IsSpace(s[i]) /\ (i = 1 \/ IsSpace(s[i-1]))})

RECURSIVE CollapseSpaces(_)
\* ' '.join(text.split()) is the text with every run of whitespace made one
\* space and none at either end
CollapseSpaces(s) ==
    LET t == Strip(s) IN
    IF t = <<>> THEN <<>>
    ELSE IF IsSpace(Head(t)) THEN CollapseSpaces(Tail(t))
         ELSE IF Len(t) >= 2 /\ IsSpace(t[2])
              THEN <<Head(t), " ">> \o CollapseSpaces(Tail(t))
              ELSE <<Head(t)>> \o CollapseSpaces(Tail(t))

StartsWithCI(s, p) == Len(s) >= Len(p) /\ Lower(SubSeq(s, 1, Len(p))) = p

RECURSIVE NonBlankLines(_)
\* [line.strip().lower() for line in f if line.strip()]
NonBlankLines(lines) ==
    IF lines = <<>> THEN <<>>
    ELSE IF Strip(Head(lines)) # <<>>
         THEN <<Lower(Strip(Head(lines)))>> \o NonBlankLines(Tail(lines))
         ELSE NonBlankLines(Tail(lines))

(***************************************************************************)
(* extract_name, is_valid_name, contains_profanity as pure functions.      *)
(***************************************************************************)
Str_hi == <<"h","i">>

Str_hello == <<"h","e","l","l","o">>

Str_hey == <<"h","e","y">>

Str_merry == <<"m","e","r","r","y"," ","c","h","r","i","s","t","m","a","s">>

Str_happy == <<"h","a","p","p","y"," ","h","o","l","i","d","a","y","s">>

Str_Guest == <<"G","u","e","s","t">>

\* the alternatives of the greeting pattern, in the order the pattern tries them
Greetings == <<Str_hi, Str_hello, Str_hey, Str_merry, Str_happy>>

\* the class [,!.\s] that may follow a greeting
IsGreetingTail(c) == c \in {",", "!", "."} \/ IsSpace(c)

RECURSIVE DropGreetingTail(_)
DropGreetingTail(s) ==
    IF s # <<>> /\ IsGreetingTail(Head(s)) THEN DropGreetingTail(Tail(s)) ELSE s

\* re.sub(r'^(hi|hello|hey|merry christmas|happy holidays)[,!.\s]*', '', m, IGNORECASE)
StripGreeting(s) ==
    LET hits == {i \in DOMAIN Greetings : StartsWithCI(s, Greetings[i])} IN
    IF hits = {} THEN s
    ELSE LET g == Greetings[CHOOSE i \in hits : \A j \in hits : i <= j] IN
         DropGreetingTail(SubSeq(s, Len(g) + 1, Len(s)))

\* extract_name(message) under config max_message_length = maxLen
ExtractName(message, maxLen) ==
    LET m == Title(Strip(KeepNameChars(StripGreeting(Strip(message))))) IN
    IF m # <<>> THEN Truncate(m, maxLen) ELSE Str_Guest

\* the absolute ceiling of is_valid_name
MaxNameLen == 50

\* is_valid_name(text)[0] under the word-count policy of the configuration
IsValidName(text, oneWordOnly, twoWordsMax) ==
    LET t == CollapseSpaces(text)
        wc == WordCount(t) IN
    /\ (oneWordOnly => wc = 1)
    /\ (~oneWordOnly /\ twoWordsMax => wc <= 2)
    /\ Len(t) <= MaxNameLen

\* \b at position i of text (between text[i-1] and text[i]; i in 1..Len+1)
WordBoundaryAt(text, i) ==
    LET before == i > 1 /\ IsWordChar(text[i-1])
        after  == i <= Len(text) /\ IsWordChar(text[i]) IN
    before # after

\* re.compile(r'\b' + re.escape(word) + r'\b').search(text)
PatternSearch(word, text) ==
    \E i \in 1..(Len(text) - Len(word) + 1) :
        /\ SubSeq(text, i, i + Len(word) - 1) = word
        /\ WordBoundaryAt(text, i)
        /\ WordBoundaryAt(text, i + Len(word))

(***************************************************************************)
(* Data of the model.                                                      *)
(***************************************************************************)
\* None and a present value
None == <<>>

Some(x) == <<x>>

Phones == {"+15550001", "+15550002"}

\* data.get('phone', '+15555550000') of the test route
TestPhone == "+15555550000"

\* the phones a test request names: the default and one that also texts
SubmitPhones == {TestPhone, "+15550001"}

Body_bob == <<"h","i"," ","b","o","b","!">>

Body_foo == <<"f","o","o">>

Body_abc == <<"a"," ","b"," ","c">>

Bodies == {Body_bob, Body_foo, Body_abc}

\* message texts for the profanity gate: a term inside a longer word, as a
\* word among others, in another case, with its letters apart, and a term
\* written with symbols alone and inside a longer token
Body_barfoo == <<"b","a","r","f","o","o"," ","b","a","z">>

Body_foobar == <<"f","o","o"," ","b","a","r">>

Body_FOO == <<"F","O","O","!">>

Body_dots == <<"f",".","o",".","o">>

Body_sym == <<"a","$","$">>

Body_symlong == <<"a","$","$","e","t">>

ProfanityBodies == {Body_bob, Body_foo, Body_barfoo, Body_foobar, Body_FOO, Body_dots,
                    Body_sym, Body_symlong}

\* message texts for the format gate: a hyphenated name alone and with a
\* second word, words of MaxNameLen and MaxNameLen + 1 letters, and two
\* letters with more than MaxNameLen spaces between them
Body_hyphen == <<"m","a","r","y","-","a","n","n">>

Body_hyphen2 == <<"m","a","r","y","-","a","n","n"," ","l","e","e">>

Body_long == [i \in 1..MaxNameLen |-> "x"]

Body_toolong == [i \in 1..(MaxNameLen + 1) |-> "x"]

Body_spaced == <<"a">> \o [i \in 1..MaxNameLen |-> " "] \o <<"b">>

FormatBodies == {Body_bob, Body_barfoo, Body_abc, Body_hyphen, Body_hyphen2, Body_long,
                 Body_toolong, Body_spaced}

\* every text a message of the model can have
AllBodies == Bodies \cup ProfanityBodies \cup FormatBodies

\* the texts a run can hand to extract_name
ExtractNameOf == [b \in AllBodies |-> [n \in {100} |-> ExtractName(b, n)]]

\* whitelist.txt and blacklist.txt: lines as written by the operator
WhitelistLines == << <<"B","o","b">>, <<"F","O","O">> >>

BlacklistLines == << <<"F","o","o">> >>

\* whitelist.txt after the operator has rewritten it
NewWhitelistLines == << <<"a"," ","b"," ","c">> >>

\* whitelist.txt with nothing but blank lines
BlankWhitelistLines == << <<>>, <<" ">> >>

\* a blacklist whose term is written with symbols
SymbolBlacklistLines == << <<"a","$","$">> >>

BlacklistWords ==
    Range(NonBlankLines(BlacklistLines)) \cup Range(NonBlankLines(SymbolBlacklistLines))

\* the texts a run can hand to contains_profanity and the words it can find
\* in blacklist.txt
Texts == AllBodies \cup {ExtractNameOf[b][100] : b \in AllBodies}

PatternSearchOf ==
    [w \in BlacklistWords |-> [t \in Texts |-> PatternSearch(w, Lower(t))]]

\* the loop of contains_profanity over the compiled patterns
MatchesAny(patterns, text) ==
    \E k \in DOMAIN patterns : PatternSearchOf[patterns[k]][text]

\* DEFAULT_CONFIG with the keys the pipeline reads; the numbers are the
\* settings of /api/config
ConfigRateLimit ==
    [max_messages_per_phone |-> 1, max_message_length |-> 100,
     one_word_only |-> FALSE, two_words_max |-> TRUE,
     use_whitelist |-> FALSE, profanity_filter |-> TRUE,
     display_duration |-> 1, name_display_playlist |-> TRUE,
     overlay_model_name |-> TRUE]

ConfigWhitelist ==
    [max_messages_per_phone |-> 0, max_message_length |-> 100,
     one_word_only |-> FALSE, two_words_max |-> FALSE,
     use_whitelist |-> TRUE, profanity_filter |-> TRUE,
     display_duration |-> 1, name_display_playlist |-> TRUE,
     overlay_model_name |-> TRUE]

\* the shipped setting of the overlay model: "", text is neither drawn
\* nor cleared
ConfigNoOverlay == [ConfigWhitelist EXCEPT !.overlay_model_name = FALSE]

\* null in an integer setting: the settings page sends parseInt of the
\* field, NaN for an empty one, which JSON.stringify writes as null and
\* update_config stores as None.  The settings of the model being integers,
\* None is the one value below that no field of the page can hold otherwise
NullInt == -1

\* first names only
ConfigOneWord == [ConfigRateLimit EXCEPT !.one_word_only = TRUE]

\* two messages a day
ConfigRateLimitTwo == [ConfigRateLimit EXCEPT !.max_messages_per_phone = 2]

\* the setting page saved with the field of max_messages_per_phone empty
ConfigNullLimit == [ConfigRateLimit EXCEPT !.max_messages_per_phone = NullInt]

Configs == {ConfigRateLimit, ConfigWhitelist}

\* the statuses of AuditEntry that count as an accepted name
AcceptedStatuses == {"displayed", "displaying", "queued"}

RejectionStatuses == {"blocked", "rate_limited", "duplicate_name_today",
                      "invalid_format", "not_on_whitelist", "profanity"}

\* messages.list(..., limit=20)
ListLimit == 20

\* the first sid the provider hands out; OldSid is a message of an earlier
\* process that has left the provider's window, NoSid is None
NoSid == 0

OldSid == 1

FirstSid == 2

(***************************************************************************)
(* The cached policy lists.  A file is [exists, mtime, lines]; a load      *)
(* returns the value handed to the caller and the cache it leaves behind.  *)
(***************************************************************************)
RECURSIVE Reverse(_)
Reverse(s) == IF s = <<>> THEN <<>> ELSE Reverse(Tail(s)) \o <<Head(s)>>

\* CachedLoad handing out the cache when the file is missing
CachedLoadKeepsMissing(file, cache, mtime, parsed) ==
    IF ~file.exists
    THEN [value |-> IF cache = None THEN <<>> ELSE cache[1], cache |-> cache,
          mtime |-> mtime]
    ELSE IF cache = None \/ mtime # file.mtime
         THEN IF file.readable
              THEN [value |-> parsed, cache |-> Some(parsed), mtime |-> file.mtime]
              ELSE [value |-> <<>>, cache |-> cache, mtime |-> mtime]
         ELSE [value |-> cache[1], cache |-> cache, mtime |-> mtime]

\* the shape shared by load_whitelist, load_blacklist and load_blocklist:
\* a missing file (getmtime raises FileNotFoundError) and a file that cannot
\* be opened (open raises, except Exception) give [] and leave the cache
\* alone; the file is opened only when nothing is cached or the stamp differs
CachedLoad(file, cache, mtime, parsed) ==
    IF ~file.exists
    THEN [value |-> <<>>, cache |-> cache, mtime |-> mtime]
    ELSE IF cache = None \/ mtime # file.mtime
         THEN IF file.readable
              THEN [value |-> parsed, cache |-> Some(parsed), mtime |-> file.mtime]
              ELSE [value |-> <<>>, cache |-> cache, mtime |-> mtime]
         ELSE [value |-> cache[1], cache |-> cache, mtime |-> mtime]

LoadWhitelist(file, cache, mtime) ==
    CachedLoad(file, cache, mtime, NonBlankLines(file.lines))

\* a compiled pattern \bword\b is kept as its word
LoadBlacklist(file, cache, mtime) ==
    CachedLoad(file, cache, mtime, NonBlankLines(file.lines))

JsonList(lines) == lines

LoadBlocklist(file, cache, mtime) ==
    CachedLoad(file, cache, mtime, JsonList(file.lines))

\* save_blocklist: write the file, then cache the list under the new stamp
SaveBlocklist(file, blocklist) ==
    LET written == [exists |-> TRUE, readable |-> file.readable,
                    mtime |-> file.mtime + 1, lines |-> blocklist] IN
    [file |-> written, cache |-> Some(blocklist), mtime |-> written.mtime]

RECURSIVE RemoveFirst(_, _)
\* list.remove(x)
RemoveFirst(s, x) ==
    IF s = <<>> THEN <<>>
    ELSE IF Head(s) = x THEN Tail(s) ELSE <<Head(s)>> \o RemoveFirst(Tail(s), x)

\* block_phone: [ok, file, cache, mtime]
BlockPhone(phone, file, cache, mtime) ==
    LET ld == LoadBlocklist(file, cache, mtime) IN
    IF phone \notin Range(ld.value)
    THEN LET sv == SaveBlocklist(file, Append(ld.value, phone)) IN
         [ok |-> TRUE, file |-> sv.file, cache |-> sv.cache, mtime |-> sv.mtime]
    ELSE [ok |-> FALSE, file |-> file, cache |-> ld.cache, mtime |-> ld.mtime]

\* UnblockPhone saving the list without removing the phone
UnblockPhoneKeeps(phone, file, cache, mtime) ==
    LET ld == LoadBlocklist(file, cache, mtime) IN
    IF phone \in Range(ld.value)
    THEN LET sv == SaveBlocklist(file, ld.value) IN
         [ok |-> TRUE, file |-> sv.file, cache |-> sv.cache, mtime |-> sv.mtime]
    ELSE [ok |-> FALSE, file |-> file, cache |-> ld.cache, mtime |-> ld.mtime]

\* unblock_phone: [ok, file, cache, mtime]
UnblockPhone(phone, file, cache, mtime) ==
    LET ld == LoadBlocklist(file, cache, mtime) IN
    IF phone \in Range(ld.value)
    THEN LET sv == SaveBlocklist(file, RemoveFirst(ld.value, phone)) IN
         [ok |-> TRUE, file |-> sv.file, cache |-> sv.cache, mtime |-> sv.mtime]
    ELSE [ok |-> FALSE, file |-> file, cache |-> ld.cache, mtime |-> ld.mtime]

\* load_blocklist parses the file and makes the result the cache
LoadMisses(file, cache, mtime) ==
    file.exists /\ file.readable /\ (cache = None \/ mtime # file.mtime)

\* a request that has called load_blocklist and not yet saved: the list it
\* holds is the object load_blocklist returned, which is _blocklist_cache
\* itself (shared) unless the file was missing and a new [] was returned
InFlight(op, phone, file, value) ==
    Some([op |-> op, phone |-> phone, list |-> value, shared |-> file.exists])

\* the cache has become another object: the request keeps the one it has
Detached(call) ==
    IF call = None THEN None ELSE Some([call[1] EXCEPT !.shared = FALSE])

\* the request in flight after another thread's load_blocklist
CallAfterLoad(call, file, cache, mtime) ==
    IF LoadMisses(file, cache, mtime) THEN Detached(call) ELSE call

\* the request in flight after another thread's block_phone or
\* unblock_phone, which left the list written: append and remove change the
\* list in place, seen through every reference to the same object, and
\* save_blocklist makes the list it was given the cache
CallAfterWrite(call, file, cache, mtime, ok, written) ==
    LET c == CallAfterLoad(call, file, cache, mtime) IN
    IF c = None \/ ~ok THEN c
    ELSE IF c[1].shared /\ file.exists THEN Some([c[1] EXCEPT !.list = written])
         ELSE Detached(c)

\* IsBlocked answering no for every phone
IsBlockedNever(phone, blocklist) == FALSE

\* is_blocked(phone), given what load_blocklist returned
IsBlocked(phone, blocklist) == phone \in Range(blocklist)

\* IsOnWhitelist comparing the name as extracted, capitals included
IsOnWhitelistExact(name, cfg, file, cache, mtime) ==
    IF ~cfg.use_whitelist
    THEN [value |-> TRUE, cache |-> cache, mtime |-> mtime]
    ELSE LET ld == LoadWhitelist(file, cache, mtime) IN
         [value |-> ld.value = <<>> \/ Strip(name) \in Range(ld.value),
          cache |-> ld.cache, mtime |-> ld.mtime]

\* is_on_whitelist(name): the whitelist is loaded only when use_whitelist is set
IsOnWhitelist(name, cfg, file, cache, mtime) ==
    IF ~cfg.use_whitelist
    THEN [value |-> TRUE, cache |-> cache, mtime |-> mtime]
    ELSE LET ld == LoadWhitelist(file, cache, mtime) IN
         [value |-> ld.value = <<>> \/ Strip(Lower(name)) \in Range(ld.value),
          cache |-> ld.cache, mtime |-> ld.mtime]

\* ContainsProfanity finding nothing, whatever the text
ContainsProfanityNever(text, cfg, file, cache, mtime) ==
    [value |-> FALSE, cache |-> cache, mtime |-> mtime]

\* contains_profanity(text): the blacklist is loaded only when the filter is on
ContainsProfanity(text, cfg, file, cache, mtime) ==
    IF ~cfg.profanity_filter
    THEN [value |-> FALSE, cache |-> cache, mtime |-> mtime]
    ELSE LET ld == LoadBlacklist(file, cache, mtime) IN
         [value |-> ld.value # <<>> /\ MatchesAny(ld.value, text),
          cache |-> ld.cache, mtime |-> ld.mtime]

(***************************************************************************)
(* The audit log.                                                          *)
(***************************************************************************)
NoTime == -1

\* item is history: the queue item the entry was written for, 0 for none
AuditEntry(day, phone, message, name, status, item) ==
    [timestamp |-> day, phone_full |-> phone, message |-> message,
     extracted_name |-> name, status |-> status, status_updated |-> NoTime,
     item |-> item]

\* logs[-100:]
LastEntries(logs) ==
    IF Len(logs) > LogCap THEN SubSeq(logs, Len(logs) - LogCap + 1, Len(logs)) ELSE logs

\* the list log_message writes back
LogAppend(logs, entry) == LastEntries(Append(logs, entry))

\* GetMessageCount over the accepted entries only
GetMessageCountAccepted(logs, phone, day) ==
    Cardinality({i \in DOMAIN logs :
                    /\ logs[i].phone_full = phone
                    /\ logs[i].timestamp = day
                    /\ logs[i].status \in AcceptedStatuses})

\* get_message_count(phone)
GetMessageCount(logs, phone, day) ==
    Cardinality({i \in DOMAIN logs :
                    logs[i].phone_full = phone /\ logs[i].timestamp = day})

\* HasSentNameToday whatever the status of the entry
HasSentNameTodayAnyStatus(logs, phone, name, day) ==
    \E i \in DOMAIN logs :
        /\ logs[i].phone_full = phone
        /\ Lower(logs[i].extracted_name) = Lower(name)
        /\ logs[i].timestamp = day

\* has_sent_name_today(phone, name)
HasSentNameToday(logs, phone, name, day) ==
    \E i \in DOMAIN logs :
        /\ logs[i].phone_full = phone
        /\ Lower(logs[i].extracted_name) = Lower(name)
        /\ logs[i].status \in AcceptedStatuses
        /\ logs[i].timestamp = day

\* the entries update_message_status may pick: sender and name both equal
StatusMatches(logs, phone, name) ==
    {i \in DOMAIN logs : logs[i].phone_full = phone /\ logs[i].extracted_name = name}

\* the list update_message_status writes back: the newest match is updated
UpdateStatus(logs, phone, name, new_status, day) ==
    LET hits == StatusMatches(logs, phone, name) IN
    IF hits = {} THEN logs
    ELSE LET k == CHOOSE i \in hits : \A j \in hits : j <= i IN
         [logs EXCEPT ![k].status = new_status, ![k].status_updated = day]

(***************************************************************************)
(* The provider and the cursor.                                            *)
(***************************************************************************)
\* twilio_client.messages.list(...): the messages still in the window,
\* newest first, at most ListLimit of them
MessagesList(prov, lo) ==
    LET w == Reverse(SubSeq(prov, lo + 1, Len(prov))) IN
    IF Len(w) > ListLimit THEN SubSeq(w, 1, ListLimit) ELSE w

\* NewMessages with the scan never stopping at the cursor
NewMessagesNoStop(messages, cursor) == messages

\* the scan of poll_twilio: the messages listed before the cursor
NewMessages(messages, cursor) ==
    LET stops == {i \in DOMAIN messages : cursor # NoSid /\ messages[i].sid = cursor} IN
    IF stops = {} THEN messages
    ELSE SubSeq(messages, 1, (CHOOSE i \in stops : \A j \in stops : i <= j) - 1)

\* FirstRunCursor taking the oldest listed message as the baseline
FirstRunCursorOldest(messages, cursor) ==
    IF Len(messages) > 0 THEN messages[Len(messages)].sid ELSE cursor

\* the first run: the cursor becomes messages[0].sid when anything is listed
FirstRunCursor(messages, cursor) ==
    IF Len(messages) > 0 THEN messages[1].sid ELSE cursor

\* for msg in reversed(new_messages)
ProcessingOrder(new) == Reverse(new)

(***************************************************************************)
(* The gates that follow name extraction, in the order poll_twilio and the *)
(* test route evaluate them.                                               *)
(***************************************************************************)
\* PollGateOrder with the profanity check moved before the whitelist check
PollGateOrderProfanityFirst == <<"duplicate", "format", "profanity", "whitelist">>

PollGateOrder == <<"duplicate", "format", "whitelist", "profanity">>

SubmitGateOrder == <<"format", "whitelist", "profanity">>

GateStatus ==
    [block |-> "blocked", rate |-> "rate_limited", duplicate |-> "duplicate_name_today",
     format |-> "invalid_format", whitelist |-> "not_on_whitelist",
     profanity |-> "profanity"]

\* index in order of the first gate that fails, 0 when all pass
FirstFailing(order, passes) ==
    LET bad == {i \in DOMAIN order : ~passes[order[i]]} IN
    IF bad = {} THEN 0 ELSE CHOOSE i \in bad : \A j \in bad : i <= j

\* the gates a chain with early exit gets to evaluate
Evaluated(order, passes) ==
    LET ff == FirstFailing(order, passes) IN
    IF ff = 0 THEN order ELSE SubSeq(order, 1, ff)

TraceOf(order, passes) ==
    LET ev == Evaluated(order, passes) IN
    [i \in DOMAIN ev |-> [gate |-> ev[i], pass |-> passes[ev[i]]]]

\* the queue_item of add_to_queue; seq is the history of the append order
QueueItem(name, phone, message, day, n) ==
    [name |-> name, phone |-> phone, message |-> message, timestamp |-> day,
     status |-> "queued", seq |-> n]

VARIABLES
    today,                \* datetime.now().date()
    provider,             \* inbound messages at the provider, oldest first
    window_lo,            \* how many of them have left the 10 minute window
    config,
    whitelist_file, whitelist_cache, whitelist_mtime,
    blacklist_file, blacklist_cache, blacklist_mtime,
    blocklist_file, blocklist_cache, blocklist_mtime,
    message_log,          \* content of MESSAGE_LOG
    log_exists,           \* whether MESSAGE_LOG exists
    last_message_sid, sid_file, first_run,
    pc_poll,              \* position of poll_twilio
    new_messages,         \* reversed(new_messages) still to process
    poll_status, poll_name, poll_logs,
    message_queue, currently_displaying, queue_lock,
    pc_display,           \* position of display_worker
    display_logs,
    hold_left,            \* what is left of time.sleep(display_duration)
    stop_display,
    queue_status,         \* what get_queue_status returned last
    read_blocklist,       \* api_get_blocklist: what load_blocklist has read
    block_call,           \* a block / unblock request between load and save
    pc_submit,            \* position of test_message_submission
    submit_name, submit_phone, submit_logs,
    budget,               \* what the environment may still do, by kind
    \* history variables (not program state)
    gate_runs,            \* sids in the order the gates were started for them
    gate_trace,           \* gates evaluated for the message in hand
    audit_calls,          \* what poll_twilio passed to log_message, call by call
    enqueued_sids,        \* sids add_to_queue was called for
    baseline,             \* newest sid at the provider at the first-run poll
    enq_count,            \* items appended to the queue so far
    dequeued,             \* seq numbers in the order they were popped
    cycles_done,          \* display cycles whose last status update is over
    own_seq,              \* the item poll_twilio / the test route appended last
    fpp_calls,            \* requests sent to FPP in the display cycle in hand
    block_hist            \* the last two block / unblock calls

env_vars == <<today, provider, window_lo, config>>

list_vars == <<whitelist_file, whitelist_cache, whitelist_mtime,
               blacklist_file, blacklist_cache, blacklist_mtime>>

blocklist_vars == <<blocklist_file, blocklist_cache, blocklist_mtime>>

log_vars == <<message_log, log_exists>>

cursor_vars == <<last_message_sid, sid_file, first_run>>

poll_vars == <<pc_poll, new_messages, poll_status, poll_name, poll_logs>>

queue_vars == <<message_queue, currently_displaying, queue_lock>>

display_vars == <<pc_display, display_logs>>

submit_vars == <<pc_submit, submit_name, submit_phone, submit_logs>>

hist_poll_vars == <<gate_runs, gate_trace, audit_calls, enqueued_sids, baseline>>

hist_queue_vars == <<enq_count, dequeued, cycles_done, own_seq>>

\* the display controller as display_worker drives it
ctl_vars == <<hold_left, fpp_calls>>

\* the stop flag and the two read-only routes
route_vars == <<stop_display, queue_status, read_blocklist, block_call>>

vars == <<env_vars, list_vars, blocklist_vars, log_vars, cursor_vars, poll_vars,
          queue_vars, display_vars, submit_vars, budget, hist_poll_vars,
          hist_queue_vars, block_hist, ctl_vars, route_vars>>

\* blocked_phones.json before the first block request of an installation,
\* whitelist.txt or blacklist.txt with the given lines, and neither present
ListFile(lines) == [exists |-> TRUE, readable |-> TRUE, mtime |-> 1, lines |-> lines]

NoListFile == [exists |-> FALSE, readable |-> TRUE, mtime |-> 0, lines |-> <<>>]

\* and as an earlier process left it
NoBlocklistFile == [exists |-> FALSE, readable |-> TRUE, mtime |-> 0, lines |-> <<>>]

OldBlocklistFile ==
    [exists |-> TRUE, readable |-> TRUE, mtime |-> 1, lines |-> <<"+15550002">>]

(***************************************************************************)
(* Initial state: load_config has run, both workers are about to start.    *)
(***************************************************************************)
InitFrom(configs, cursors, blockfiles, allowed, inboxes, whitelists, blacklists, logs) ==
    /\ today = 0
    /\ provider \in inboxes
    /\ window_lo = 0
    /\ config \in configs
    /\ whitelist_file \in whitelists
    /\ whitelist_cache = None
    /\ whitelist_mtime = NoTime
    /\ blacklist_file \in blacklists
    /\ blacklist_cache = None
    /\ blacklist_mtime = NoTime
    /\ blocklist_file \in blockfiles
    /\ blocklist_cache = None
    /\ blocklist_mtime = NoTime
    /\ message_log \in logs
    /\ log_exists = (message_log # <<>>)
    /\ last_message_sid \in cursors
    /\ sid_file = last_message_sid
    /\ first_run = (last_message_sid = NoSid)
    /\ pc_poll = "poll"
    /\ new_messages = <<>>
    /\ poll_status = "none"
    /\ poll_name = <<>>
    /\ poll_logs = <<>>
    /\ message_queue = <<>>
    /\ currently_displaying = None
    /\ queue_lock = "free"
    /\ pc_display = "check"
    /\ display_logs = <<>>
    /\ pc_submit = "idle"
    /\ submit_name = <<>>
    /\ submit_phone = TestPhone
    /\ submit_logs = <<>>
    /\ budget = allowed
    /\ gate_runs = <<>>
    /\ gate_trace = <<>>
    /\ audit_calls = <<>>
    /\ enqueued_sids = {}
    /\ baseline = NoSid
    /\ enq_count = 0
    /\ dequeued = <<>>
    /\ cycles_done = 0
    /\ block_hist = <<>>
    /\ own_seq = [poll |-> 0, submit |-> 0]
    /\ fpp_calls = <<>>
    /\ hold_left = 0
    /\ stop_display = FALSE
    /\ queue_status = None
    /\ read_blocklist = None
    /\ block_call = None

\* nothing at the provider, both word lists as installed, no audit log yet
InitWith(configs, cursors, blockfiles, allowed) ==
    InitFrom(configs, cursors, blockfiles, allowed, {<<>>},
             {ListFile(WhitelistLines)}, {ListFile(BlacklistLines)}, {<<>>})

(***************************************************************************)
(* The environment: the provider receives a message, a message leaves the  *)
(* ten minute window, the date changes.                                    *)
(***************************************************************************)
Arrive ==
    /\ budget.arrive > 0
    /\ budget' = [budget EXCEPT !.arrive = @ - 1]
    /\ \E from \in Phones, body \in Bodies :
          provider' = Append(provider,
                             [sid |-> FirstSid + Len(provider), from_ |-> from, body |-> body])
    /\ UNCHANGED <<today, window_lo, config, list_vars, blocklist_vars, log_vars,
                   cursor_vars, poll_vars, queue_vars, display_vars, submit_vars,
                   hist_poll_vars, hist_queue_vars, block_hist>>
    /\ UNCHANGED <<ctl_vars, route_vars>>

AgeOut ==
    /\ budget.age > 0
    /\ budget' = [budget EXCEPT !.age = @ - 1]
    /\ window_lo < Len(provider)
    /\ window_lo' = window_lo + 1
    /\ UNCHANGED <<today, provider, config, list_vars, blocklist_vars, log_vars,
                   cursor_vars, poll_vars, queue_vars, display_vars, submit_vars,
                   hist_poll_vars, hist_queue_vars, block_hist>>
    /\ UNCHANGED <<ctl_vars, route_vars>>

\* what one change by the operator makes of a list file: written anew
\* (created when missing), removed, or its permission to read turned over,
\* which leaves the modification time as it is
ListEdits(file, contents) ==
    {[exists |-> TRUE, readable |-> file.readable, mtime |-> file.mtime + 1,
      lines |-> lines] : lines \in contents}
    \cup (IF file.exists
          THEN {[exists |-> FALSE, readable |-> TRUE, mtime |-> file.mtime + 1,
                 lines |-> <<>>],
                [file EXCEPT !.readable = ~@]}
          ELSE {})

\* the operator edits WHITELIST_FILE or BLACKLIST_FILE; the program only
\* reads them
EditList ==
    /\ budget.edit > 0
    /\ budget' = [budget EXCEPT !.edit = @ - 1]
    /\ \/ /\ whitelist_file' \in ListEdits(whitelist_file,
                                            {WhitelistLines, NewWhitelistLines})
          /\ UNCHANGED blacklist_file
       \/ /\ blacklist_file' \in ListEdits(blacklist_file, {BlacklistLines})
          /\ UNCHANGED whitelist_file
    /\ UNCHANGED <<env_vars, whitelist_cache, whitelist_mtime, blacklist_cache,
                   blacklist_mtime, blocklist_vars, log_vars, cursor_vars, poll_vars,
                   queue_vars, display_vars, submit_vars, hist_poll_vars,
                   hist_queue_vars, block_hist, ctl_vars, route_vars>>

NextDay ==
    /\ budget.day > 0
    /\ budget' = [budget EXCEPT !.day = @ - 1]
    /\ today' = today + 1
    /\ UNCHANGED <<provider, window_lo, config, list_vars, blocklist_vars, log_vars,
                   cursor_vars, poll_vars, queue_vars, display_vars, submit_vars,
                   hist_poll_vars, hist_queue_vars, block_hist>>
    /\ UNCHANGED <<ctl_vars, route_vars>>

(***************************************************************************)
(* poll_twilio.                                                            *)
(***************************************************************************)
\* where the loop goes once a message is done with
AfterMessage(rest) == IF rest = <<>> THEN "poll" ELSE "block"

\* how a call of save_last_sid can end: the sid written, open raising
\* (the file as it was), write raising after open has truncated the file;
\* the exception is logged and not passed on
SaveOutcomes(left) == IF left > 0 THEN {"ok", "unopened", "truncated"} ELSE {"ok"}

\* LAST_SID_FILE after save_last_sid(sid)
SaveLastSid(file, sid, outcome) ==
    CASE outcome = "ok" -> sid
      [] outcome = "unopened" -> file
      [] OTHER -> NoSid

\* CursorAfterSave following the file: the cursor moves only when the
\* save went through
CursorAfterSaveIfSaved(cursor, sid, outcome) == IF outcome = "ok" THEN sid ELSE cursor

\* last_message_sid = msg.sid comes before save_last_sid(msg.sid) and is
\* not undone by its failure
CursorAfterSave(cursor, sid, outcome) == sid

BudgetAfterSave(outcome) ==
    IF outcome = "ok" THEN budget ELSE [budget EXCEPT !.savefail = @ - 1]

\* one pass of the while loop up to the for loop: list, scan, first run
PollFetch ==
    /\ pc_poll = "poll"
    /\ LET messages == MessagesList(provider, window_lo)
           new == NewMessages(messages, last_message_sid) IN
       IF first_run
       THEN /\ first_run' = FALSE
            /\ IF Len(messages) > 0
               THEN \E outcome \in SaveOutcomes(budget.savefail) :
                       /\ last_message_sid' =
                             CursorAfterSave(last_message_sid,
                                             FirstRunCursor(messages, last_message_sid),
                                             outcome)
                       /\ sid_file' = SaveLastSid(sid_file,
                                                  FirstRunCursor(messages, sid_file),
                                                  outcome)
                       /\ budget' = BudgetAfterSave(outcome)
               ELSE UNCHANGED <<last_message_sid, sid_file, budget>>
            /\ baseline' = FirstSid + Len(provider) - 1
            /\ UNCHANGED <<pc_poll, new_messages>>
       ELSE /\ new_messages' = ProcessingOrder(new)
            /\ pc_poll' = AfterMessage(new_messages')
            /\ UNCHANGED <<cursor_vars, baseline, budget>>
    /\ UNCHANGED <<env_vars, list_vars, blocklist_vars, log_vars, poll_status,
                   poll_name, poll_logs, queue_vars, display_vars, submit_vars,
                   gate_runs, gate_trace, audit_calls, enqueued_sids,
                   hist_queue_vars, block_hist>>
    /\ UNCHANGED <<ctl_vars, route_vars>>

\* FirstRunAfterFailure with the failed poll taken for the first run
FirstRunAfterFailureConsumed(first) == FALSE

\* first_run after a poll whose messages.list raised: the except clause is
\* reached before first_run = False is
FirstRunAfterFailure(first) == first

\* twilio_client.messages.list raises: the except clause of the loop logs
\* the error, then time.sleep(poll_interval) and the next poll
PollFetchFails ==
    /\ pc_poll = "poll"
    /\ budget.outage > 0
    /\ budget' = [budget EXCEPT !.outage = @ - 1]
    /\ first_run' = FirstRunAfterFailure(first_run)
    /\ UNCHANGED <<env_vars, list_vars, blocklist_vars, log_vars, last_message_sid,
                   sid_file, poll_vars, queue_vars, display_vars, submit_vars,
                   hist_poll_vars, hist_queue_vars, block_hist, ctl_vars, route_vars>>

\* gate 1: is_blocked(from_number)
PollBlockGate ==
    /\ pc_poll = "block"
    /\ LET msg == Head(new_messages)
           ld == LoadBlocklist(blocklist_file, blocklist_cache, blocklist_mtime)
           blocked == IsBlocked(msg.from_, ld.value) IN
       /\ blocklist_cache' = ld.cache
       /\ blocklist_mtime' = ld.mtime
       /\ gate_runs' = Append(gate_runs, msg.sid)
       /\ gate_trace' = <<[gate |-> "block", pass |-> ~blocked]>>
       /\ poll_name' = <<>>
       /\ poll_status' = IF blocked THEN GateStatus.block ELSE "none"
       /\ pc_poll' = IF blocked THEN "log_read" ELSE "rate"
    /\ block_call' = CallAfterLoad(block_call, blocklist_file, blocklist_cache,
                                   blocklist_mtime)
    /\ UNCHANGED <<env_vars, list_vars, blocklist_file, log_vars, cursor_vars,
                   new_messages, poll_logs, queue_vars, display_vars, submit_vars,
                   budget, audit_calls, enqueued_sids, baseline, hist_queue_vars,
                   block_hist>>
    /\ UNCHANGED <<ctl_vars, stop_display, queue_status, read_blocklist>>

\* max_msgs > 0 and msg_count >= max_msgs
RateLimited(count, max) == max > 0 /\ count >= max

\* max_msgs > 0 raises TypeError when max_msgs is None
RateGateRaises(max) == max = NullInt

\* gate 2: get_message_count against max_messages_per_phone.  When the
\* comparison raises, the except clause of the loop ends the batch: the
\* message is not logged, the cursor stays, the next poll lists again (as
\* often as budget.raise allows here, every poll_interval in the source)
PollRateGate ==
    /\ pc_poll = "rate"
    /\ IF RateGateRaises(config.max_messages_per_phone)
       THEN /\ budget.raise > 0
            /\ budget' = [budget EXCEPT !.raise = @ - 1]
            /\ new_messages' = <<>>
            /\ pc_poll' = "poll"
            /\ UNCHANGED <<gate_trace, poll_status>>
       ELSE LET msg == Head(new_messages)
                limited == RateLimited(GetMessageCount(message_log, msg.from_, today),
                                       config.max_messages_per_phone) IN
            /\ gate_trace' = Append(gate_trace, [gate |-> "rate", pass |-> ~limited])
            /\ poll_status' = IF limited THEN GateStatus.rate ELSE "none"
            /\ pc_poll' = IF limited THEN "log_read" ELSE "name"
            /\ UNCHANGED <<new_messages, budget>>
    /\ UNCHANGED <<env_vars, list_vars, blocklist_vars, log_vars, cursor_vars,
                   poll_name, poll_logs, queue_vars, display_vars,
                   submit_vars, gate_runs, audit_calls, enqueued_sids,
                   baseline, hist_queue_vars, block_hist>>
    /\ UNCHANGED <<ctl_vars, route_vars>>

\* extract_name, then gates 4 to 7 with early exit
PollNameGates ==
    /\ pc_poll = "name"
    /\ LET msg == Head(new_messages)
           name == ExtractNameOf[msg.body][config.max_message_length]
           wl == IsOnWhitelist(name, config, whitelist_file, whitelist_cache,
                               whitelist_mtime)
           pf == ContainsProfanity(msg.body, config, blacklist_file, blacklist_cache,
                                   blacklist_mtime)
           passes == [duplicate |-> ~HasSentNameToday(message_log, msg.from_, name, today),
                      format |-> IsValidName(name, config.one_word_only,
                                             config.two_words_max),
                      whitelist |-> wl.value,
                      profanity |-> ~(config.profanity_filter /\ pf.value)]
           ran == Range(Evaluated(PollGateOrder, passes))
           ff == FirstFailing(PollGateOrder, passes) IN
       /\ poll_name' = name
       /\ gate_trace' = gate_trace \o TraceOf(PollGateOrder, passes)
       /\ whitelist_cache' = IF "whitelist" \in ran THEN wl.cache ELSE whitelist_cache
       /\ whitelist_mtime' = IF "whitelist" \in ran THEN wl.mtime ELSE whitelist_mtime
       /\ blacklist_cache' = IF "profanity" \in ran THEN pf.cache ELSE blacklist_cache
       /\ blacklist_mtime' = IF "profanity" \in ran THEN pf.mtime ELSE blacklist_mtime
       /\ poll_status' = IF ff = 0 THEN "none" ELSE GateStatus[PollGateOrder[ff]]
       /\ pc_poll' = IF ff = 0 THEN "enqueue" ELSE "log_read"
    /\ UNCHANGED <<env_vars, whitelist_file, blacklist_file, blocklist_vars, log_vars,
                   cursor_vars, new_messages, poll_logs, queue_vars, display_vars,
                   submit_vars, budget, gate_runs, audit_calls, enqueued_sids,
                   baseline, hist_queue_vars, block_hist>>
    /\ UNCHANGED <<ctl_vars, route_vars>>

\* EnqueueStatus with the result of add_to_queue ignored
EnqueueStatusAlwaysQueued(success) == "queued"

\* the status poll_twilio logs after add_to_queue has returned success
EnqueueStatus(success) == IF success THEN "queued" ELSE "error"

\* the results add_to_queue can return now
EnqueueResults == IF budget.enqfail > 0 THEN {TRUE, FALSE} ELSE {TRUE}

\* add_to_queue(name, from_number, body): the append under queue_lock, or
\* an exception before it, caught, with False returned
PollEnqueue ==
    /\ pc_poll = "enqueue"
    /\ \E success \in EnqueueResults :
          /\ IF success
             THEN LET msg == Head(new_messages) IN
                  /\ queue_lock = "free"
                  /\ message_queue' = Append(message_queue,
                                             QueueItem(poll_name, msg.from_, msg.body,
                                                       today, enq_count + 1))
                  /\ enqueued_sids' = enqueued_sids \cup {msg.sid}
                  /\ enq_count' = enq_count + 1
                  /\ own_seq' = [own_seq EXCEPT !.poll = enq_count + 1]
                  /\ UNCHANGED budget
             ELSE /\ budget' = [budget EXCEPT !.enqfail = @ - 1]
                  /\ UNCHANGED <<message_queue, enqueued_sids, enq_count, own_seq>>
          /\ poll_status' = EnqueueStatus(success)
    /\ pc_poll' = "log_read"
    /\ UNCHANGED <<env_vars, list_vars, blocklist_vars, log_vars, cursor_vars,
                   new_messages, poll_name, poll_logs, currently_displaying, queue_lock,
                   display_vars, submit_vars, gate_runs, gate_trace, audit_calls,
                   baseline, dequeued, cycles_done, block_hist>>
    /\ UNCHANGED <<ctl_vars, route_vars>>

\* log_message: json.load of MESSAGE_LOG ([] when it cannot be read)
PollLogRead ==
    /\ pc_poll = "log_read"
    /\ poll_logs' = message_log
    /\ pc_poll' = "log_write"
    /\ UNCHANGED <<env_vars, list_vars, blocklist_vars, log_vars, cursor_vars,
                   new_messages, poll_status, poll_name, queue_vars, display_vars,
                   submit_vars, budget, hist_poll_vars, hist_queue_vars, block_hist>>
    /\ UNCHANGED <<ctl_vars, route_vars>>

\* log_message: append, truncate, json.dump; then the cursor moves to the
\* message and is saved, or the save fails
PollLogWrite ==
    /\ pc_poll = "log_write"
    /\ LET msg == Head(new_messages) IN
       /\ message_log' = LogAppend(poll_logs,
                                   AuditEntry(today, msg.from_, msg.body, poll_name,
                                              poll_status,
                                              IF poll_status = "queued"
                                              THEN own_seq.poll ELSE 0))
       /\ log_exists' = TRUE
       /\ audit_calls' = Append(audit_calls, [sid |-> msg.sid, phone |-> msg.from_,
                                            name |-> poll_name, status |-> poll_status,
                                            day |-> today, clears |-> budget.clear])
       /\ \E outcome \in SaveOutcomes(budget.savefail) :
             /\ last_message_sid' = CursorAfterSave(last_message_sid, msg.sid, outcome)
             /\ sid_file' = SaveLastSid(sid_file, msg.sid, outcome)
             /\ budget' = BudgetAfterSave(outcome)
       /\ new_messages' = Tail(new_messages)
       /\ pc_poll' = AfterMessage(Tail(new_messages))
    /\ UNCHANGED <<env_vars, list_vars, blocklist_vars, first_run, poll_status,
                   poll_name, poll_logs, queue_vars, display_vars, submit_vars,
                   gate_runs, gate_trace, enqueued_sids, baseline, hist_queue_vars,
                   block_hist>>
    /\ UNCHANGED <<ctl_vars, route_vars>>

(***************************************************************************)
(* display_worker.                                                         *)
(***************************************************************************)
\* NothingDisplayed leaving the item where it is
NothingDisplayedKeeps(current) == current

\* currently_displaying = None
NothingDisplayed(current) == None

\* queue empty: currently_displaying = None and time.sleep(1), both while
\* queue_lock is held
DisplayIdle ==
    /\ pc_display = "check"
    /\ ~stop_display
    /\ queue_lock = "free"
    /\ message_queue = <<>>
    /\ currently_displaying' = NothingDisplayed(currently_displaying)
    /\ queue_lock' = "display"
    /\ pc_display' = "sleep"
    /\ UNCHANGED <<env_vars, list_vars, blocklist_vars, log_vars, cursor_vars,
                   poll_vars, message_queue, display_logs, submit_vars, budget,
                   hist_poll_vars, hist_queue_vars, block_hist>>
    /\ UNCHANGED <<ctl_vars, route_vars>>

\* the sleep ends, the with block releases queue_lock, continue
DisplayWake ==
    /\ pc_display = "sleep"
    /\ queue_lock' = "free"
    /\ pc_display' = "check"
    /\ UNCHANGED <<env_vars, list_vars, blocklist_vars, log_vars, cursor_vars,
                   poll_vars, message_queue, currently_displaying, display_logs,
                   submit_vars, budget, hist_poll_vars, hist_queue_vars, block_hist>>
    /\ UNCHANGED <<ctl_vars, route_vars>>

\* PopLeft handing out the oldest item and leaving it in the queue
PopLeftKeeps(queue) == [item |-> Head(queue), rest |-> queue]

\* PopLeft taking the newest item instead, as pop() would
PopRight(queue) == [item |-> queue[Len(queue)], rest |-> SubSeq(queue, 1, Len(queue) - 1)]

\* what popleft takes and what it leaves
PopLeft(queue) == [item |-> Head(queue), rest |-> Tail(queue)]

\* currently_displaying = message_queue.popleft()
DisplayDequeue ==
    /\ pc_display = "check"
    /\ ~stop_display
    /\ queue_lock = "free"
    /\ message_queue # <<>>
    /\ LET pop == PopLeft(message_queue) IN
       /\ currently_displaying' = Some(pop.item)
       /\ message_queue' = pop.rest
       /\ dequeued' = Append(dequeued, pop.item.seq)
    /\ pc_display' = "displaying_read"
    /\ UNCHANGED <<env_vars, list_vars, blocklist_vars, log_vars, cursor_vars,
                   poll_vars, queue_lock, display_logs, submit_vars, budget,
                   hist_poll_vars, enq_count, cycles_done, block_hist>>
    /\ UNCHANGED <<ctl_vars, route_vars>>
    /\ UNCHANGED own_seq

\* the status the worker is writing at a position
StatusAt(pc) == IF pc \in {"displaying_read", "displaying_write"} THEN "displaying"
                ELSE "displayed"

\* AfterStatus going back for the next item right after "displaying"
AfterStatusNoHold(pc) == IF pc \in {"displaying_read", "displaying_write"} THEN "check"
                         ELSE "finish"

\* the position after a status update
AfterStatus(pc) == IF pc \in {"displaying_read", "displaying_write"} THEN "show"
                   ELSE "finish"

\* the cycles that are over once the status update at pc is
CyclesAfter(pc, n) == IF AfterStatus(pc) = "finish" THEN n + 1 ELSE n

\* update_message_status: json.load of MESSAGE_LOG; a missing file raises and
\* the update is given up
DisplayStatusRead ==
    /\ pc_display \in {"displaying_read", "displayed_read"}
    /\ IF log_exists
       THEN /\ display_logs' = message_log
            /\ pc_display' = IF pc_display = "displaying_read" THEN "displaying_write"
                             ELSE "displayed_write"
            /\ UNCHANGED cycles_done
       ELSE /\ pc_display' = AfterStatus(pc_display)
            /\ cycles_done' = CyclesAfter(pc_display, cycles_done)
            /\ UNCHANGED display_logs
    /\ UNCHANGED <<env_vars, list_vars, blocklist_vars, log_vars, cursor_vars,
                   poll_vars, queue_vars, submit_vars, budget, hist_poll_vars,
                   enq_count, dequeued, block_hist>>
    /\ UNCHANGED <<ctl_vars, route_vars>>
    /\ UNCHANGED own_seq

\* update_message_status: the newest matching entry is changed and the list
\* that was read is written back
DisplayStatusWrite ==
    /\ pc_display \in {"displaying_write", "displayed_write"}
    /\ LET item == currently_displaying[1] IN
       message_log' = UpdateStatus(display_logs, item.phone, item.name,
                                   StatusAt(pc_display), today)
    /\ pc_display' = AfterStatus(pc_display)
    /\ cycles_done' = CyclesAfter(pc_display, cycles_done)
    /\ UNCHANGED <<env_vars, list_vars, blocklist_vars, log_exists, cursor_vars,
                   poll_vars, queue_vars, display_logs, submit_vars, budget,
                   hist_poll_vars, enq_count, dequeued, block_hist>>
    /\ UNCHANGED <<ctl_vars, route_vars>>
    /\ UNCHANGED own_seq

\* a request to FPP: what was asked and whether it came back
FppCall(command, failing) == [command |-> command, ok |-> command # failing]

\* the requests that can be made to fail now: none when no failure is left
CanFail(commands) == IF budget.fail > 0 THEN commands \cup {"none"} ELSE {"none"}

\* what a step that makes one of these requests fail leaves of the budget
AfterFailure(failing) ==
    IF failing = "none" THEN budget ELSE [budget EXCEPT !.fail = @ - 1]

\* send_to_fpp(name): stop the playlists and start the name playlist (the
\* start is skipped when the stop raises), then the text on the overlay model
SendToFpp(cfg, failing) ==
    (IF cfg.name_display_playlist
     THEN <<FppCall("stop", failing)>>
          \o (IF failing = "stop" THEN <<>> ELSE <<FppCall("start", failing)>>)
     ELSE <<>>)
    \o (IF cfg.overlay_model_name THEN <<FppCall("text", failing)>> ELSE <<>>)

\* ReturnToDefault starting the next scheduled item whatever the queue holds
ReturnToDefaultAlwaysResumes(cfg, queue_length, failing) ==
    (IF cfg.overlay_model_name THEN <<FppCall("clear", failing)>> ELSE <<>>)
    \o <<FppCall("resume", failing)>>

\* return_to_default_playlist: clear the overlay model, then start the next
\* scheduled item when len(message_queue) is 0
ReturnToDefault(cfg, queue_length, failing) ==
    (IF cfg.overlay_model_name THEN <<FppCall("clear", failing)>> ELSE <<>>)
    \o (IF queue_length > 0 THEN <<>> ELSE <<FppCall("resume", failing)>>)

\* AfterShow with a failed request ending the cycle, as an uncaught
\* exception would
AfterShowRaises(calls) ==
    IF \E i \in DOMAIN calls : ~calls[i].ok THEN "check" ELSE "hold"

\* the position after send_to_fpp: its try blocks and the one around it
\* catch every exception, the worker goes on to the sleep
AfterShow(calls) == "hold"

\* send_to_fpp(name), up to the start of time.sleep(display_duration)
DisplaySendToFpp ==
    /\ pc_display = "show"
    /\ \E failing \in CanFail({"stop", "start", "text"}) :
         /\ fpp_calls' = fpp_calls \o SendToFpp(config, failing)
         /\ budget' = AfterFailure(failing)
         /\ pc_display' = AfterShow(SendToFpp(config, failing))
    /\ hold_left' = config.display_duration
    /\ UNCHANGED <<env_vars, list_vars, blocklist_vars, log_vars, cursor_vars,
                   poll_vars, queue_vars, display_logs, submit_vars,
                   hist_poll_vars, hist_queue_vars, block_hist, route_vars>>

\* time.sleep(display_duration) goes on: nothing is looked at meanwhile
DisplayHoldTick ==
    /\ pc_display = "hold"
    /\ hold_left > 0
    /\ hold_left' = hold_left - 1
    /\ UNCHANGED <<env_vars, list_vars, blocklist_vars, log_vars, cursor_vars,
                   poll_vars, queue_vars, display_vars, submit_vars, budget,
                   hist_poll_vars, hist_queue_vars, block_hist, fpp_calls, route_vars>>

\* the sleep is over: return_to_default_playlist, with len(message_queue)
\* read under queue_lock
DisplayHoldAndReturn ==
    /\ pc_display = "hold"
    /\ hold_left = 0
    /\ queue_lock = "free"
    /\ \E failing \in CanFail({"clear", "resume"}) :
         /\ fpp_calls' = fpp_calls \o ReturnToDefault(config, Len(message_queue), failing)
         /\ budget' = AfterFailure(failing)
    /\ pc_display' = "displayed_read"
    /\ UNCHANGED <<env_vars, list_vars, blocklist_vars, log_vars, cursor_vars,
                   poll_vars, queue_vars, display_logs, submit_vars,
                   hist_poll_vars, hist_queue_vars, block_hist, hold_left, route_vars>>

\* currently_displaying = None at the end of the cycle
DisplayFinish ==
    /\ pc_display = "finish"
    /\ currently_displaying' = NothingDisplayed(currently_displaying)
    /\ fpp_calls' = <<>>
    /\ pc_display' = "check"
    /\ UNCHANGED <<env_vars, list_vars, blocklist_vars, log_vars, cursor_vars,
                   poll_vars, message_queue, queue_lock, display_logs, submit_vars,
                   budget, hist_poll_vars, hist_queue_vars, block_hist, hold_left,
                   route_vars>>

\* while not stop_display: the flag is looked at where a cycle starts
DisplayStop ==
    /\ pc_display = "check"
    /\ stop_display
    /\ pc_display' = "stopped"
    /\ UNCHANGED <<env_vars, list_vars, blocklist_vars, log_vars, cursor_vars,
                   poll_vars, queue_vars, display_logs, submit_vars, budget,
                   hist_poll_vars, hist_queue_vars, block_hist, ctl_vars, route_vars>>

\* the stop signal: stop_display becomes True
Stop ==
    /\ budget.stop > 0
    /\ ~stop_display
    /\ budget' = [budget EXCEPT !.stop = @ - 1]
    /\ stop_display' = TRUE
    /\ UNCHANGED <<env_vars, list_vars, blocklist_vars, log_vars, cursor_vars,
                   poll_vars, queue_vars, display_vars, submit_vars,
                   hist_poll_vars, hist_queue_vars, block_hist, ctl_vars,
                   queue_status, read_blocklist, block_call>>

(***************************************************************************)
(* The management routes.                                                  *)
(***************************************************************************)
Str_TEST == <<"T","E","S","T",":"," ">>

\* /api/test/message: extract_name and the three gates of the route
SubmitStart ==
    /\ pc_submit = "idle"
    /\ budget.submit > 0
    /\ budget' = [budget EXCEPT !.submit = @ - 1]
    /\ \E raw \in Bodies, phone \in SubmitPhones :
         LET name == ExtractNameOf[raw][config.max_message_length]
             wl == IsOnWhitelist(name, config, whitelist_file, whitelist_cache,
                                 whitelist_mtime)
             pf == ContainsProfanity(name, config, blacklist_file, blacklist_cache,
                                     blacklist_mtime)
             passes == [format |-> IsValidName(name, config.one_word_only,
                                               config.two_words_max),
                        whitelist |-> wl.value,
                        profanity |-> ~(config.profanity_filter /\ pf.value)]
             ran == Range(Evaluated(SubmitGateOrder, passes))
             ff == FirstFailing(SubmitGateOrder, passes) IN
         /\ submit_name' = name
         /\ submit_phone' = phone
         /\ whitelist_cache' = IF "whitelist" \in ran THEN wl.cache ELSE whitelist_cache
         /\ whitelist_mtime' = IF "whitelist" \in ran THEN wl.mtime ELSE whitelist_mtime
         /\ blacklist_cache' = IF "profanity" \in ran THEN pf.cache ELSE blacklist_cache
         /\ blacklist_mtime' = IF "profanity" \in ran THEN pf.mtime ELSE blacklist_mtime
         /\ pc_submit' = IF ff = 0 THEN "enqueue" ELSE "idle"
    /\ UNCHANGED <<env_vars, whitelist_file, blacklist_file, blocklist_vars, log_vars,
                   cursor_vars, poll_vars, queue_vars, display_vars, submit_logs,
                   hist_poll_vars, hist_queue_vars, block_hist>>
    /\ UNCHANGED <<ctl_vars, route_vars>>

\* add_to_queue(test_name, test_phone, "TEST: " + test_name)
SubmitEnqueue ==
    /\ pc_submit = "enqueue"
    /\ queue_lock = "free"
    /\ message_queue' = Append(message_queue,
                               QueueItem(submit_name, submit_phone,
                                         Str_TEST \o submit_name, today, enq_count + 1))
    /\ enq_count' = enq_count + 1
    /\ own_seq' = [own_seq EXCEPT !.submit = enq_count + 1]
    /\ pc_submit' = "log_read"
    /\ UNCHANGED <<env_vars, list_vars, blocklist_vars, log_vars, cursor_vars,
                   poll_vars, currently_displaying, queue_lock, display_vars,
                   submit_name, submit_phone, submit_logs, budget, hist_poll_vars,
                   dequeued, cycles_done, block_hist>>
    /\ UNCHANGED <<ctl_vars, route_vars>>

SubmitLogRead ==
    /\ pc_submit = "log_read"
    /\ submit_logs' = message_log
    /\ pc_submit' = "log_write"
    /\ UNCHANGED <<env_vars, list_vars, blocklist_vars, log_vars, cursor_vars,
                   poll_vars, queue_vars, display_vars, submit_name, submit_phone,
                   budget, hist_poll_vars, hist_queue_vars, block_hist>>
    /\ UNCHANGED <<ctl_vars, route_vars>>

SubmitLogWrite ==
    /\ pc_submit = "log_write"
    /\ message_log' = LogAppend(submit_logs,
                                AuditEntry(today, submit_phone, Str_TEST \o submit_name,
                                           submit_name, "queued", own_seq.submit))
    /\ log_exists' = TRUE
    /\ pc_submit' = "idle"
    /\ UNCHANGED <<env_vars, list_vars, blocklist_vars, cursor_vars, poll_vars,
                   queue_vars, display_vars, submit_name, submit_phone, submit_logs,
                   budget, hist_poll_vars, hist_queue_vars, block_hist>>
    /\ UNCHANGED <<ctl_vars, route_vars>>

\* what block_hist keeps of a call: the list before and after it, and how
\* many messages had reached the gates by then
BlockCall(op, phone, r) ==
    [op |-> op, phone |-> phone, ok |-> r.ok, runs |-> Len(gate_runs),
     before |-> LoadBlocklist(blocklist_file, blocklist_cache, blocklist_mtime).value,
     after |-> LoadBlocklist(r.file, r.cache, r.mtime).value]

LastTwo(h) == IF Len(h) > 2 THEN SubSeq(h, Len(h) - 1, Len(h)) ELSE h

\* /api/phone/block
Block ==
    /\ budget.block > 0
    /\ budget' = [budget EXCEPT !.block = @ - 1]
    /\ \E phone \in Phones :
         LET r == BlockPhone(phone, blocklist_file, blocklist_cache, blocklist_mtime) IN
         /\ blocklist_file' = r.file
         /\ blocklist_cache' = r.cache
         /\ blocklist_mtime' = r.mtime
         /\ block_hist' = LastTwo(Append(block_hist, BlockCall("block", phone, r)))
         /\ block_call' = CallAfterWrite(block_call, blocklist_file, blocklist_cache,
                                         blocklist_mtime, r.ok, r.file.lines)
    /\ UNCHANGED <<env_vars, list_vars, log_vars, cursor_vars, poll_vars, queue_vars,
                   display_vars, submit_vars, hist_poll_vars, hist_queue_vars>>
    /\ UNCHANGED <<ctl_vars, stop_display, queue_status, read_blocklist>>

\* /api/phone/unblock
Unblock ==
    /\ budget.block > 0
    /\ budget' = [budget EXCEPT !.block = @ - 1]
    /\ \E phone \in Phones :
         LET r == UnblockPhone(phone, blocklist_file, blocklist_cache, blocklist_mtime) IN
         /\ blocklist_file' = r.file
         /\ blocklist_cache' = r.cache
         /\ blocklist_mtime' = r.mtime
         /\ block_hist' = LastTwo(Append(block_hist, BlockCall("unblock", phone, r)))
         /\ block_call' = CallAfterWrite(block_call, blocklist_file, blocklist_cache,
                                         blocklist_mtime, r.ok, r.file.lines)
    /\ UNCHANGED <<env_vars, list_vars, log_vars, cursor_vars, poll_vars, queue_vars,
                   display_vars, submit_vars, hist_poll_vars, hist_queue_vars>>
    /\ UNCHANGED <<ctl_vars, stop_display, queue_status, read_blocklist>>

\* /api/phone/block or /api/phone/unblock in a thread of its own, up to the
\* return of load_blocklist
BlockCallLoad ==
    /\ budget.call > 0
    /\ block_call = None
    /\ budget' = [budget EXCEPT !.call = @ - 1]
    /\ \E op \in {"block", "unblock"}, phone \in Phones :
         LET ld == LoadBlocklist(blocklist_file, blocklist_cache, blocklist_mtime) IN
         /\ blocklist_cache' = ld.cache
         /\ blocklist_mtime' = ld.mtime
         /\ block_call' = InFlight(op, phone, blocklist_file, ld.value)
    /\ UNCHANGED <<env_vars, list_vars, blocklist_file, log_vars, cursor_vars, poll_vars,
                   queue_vars, display_vars, submit_vars, hist_poll_vars,
                   hist_queue_vars, block_hist>>
    /\ UNCHANGED <<ctl_vars, stop_display, queue_status, read_blocklist>>

\* the list the request in flight saves, None when it has nothing to do
ListToSave(call) ==
    IF call.op = "block"
    THEN IF call.phone \notin Range(call.list) THEN Some(Append(call.list, call.phone))
         ELSE None
    ELSE IF call.phone \in Range(call.list) THEN Some(RemoveFirst(call.list, call.phone))
         ELSE None

\* the rest of that request: the membership test, append or remove, and
\* save_blocklist with the list load_blocklist had returned
BlockCallSave ==
    /\ block_call # None
    /\ LET call == block_call[1]
           todo == ListToSave(call) IN
       IF todo # None
       THEN LET sv == SaveBlocklist(blocklist_file, todo[1]) IN
            /\ blocklist_file' = sv.file
            /\ blocklist_cache' = sv.cache
            /\ blocklist_mtime' = sv.mtime
            /\ block_hist' = LastTwo(Append(block_hist,
                                 [op |-> call.op, phone |-> call.phone, ok |-> TRUE,
                                  runs |-> Len(gate_runs), before |-> call.list,
                                  after |-> todo[1]]))
       ELSE /\ block_hist' = LastTwo(Append(block_hist,
                                 [op |-> call.op, phone |-> call.phone, ok |-> FALSE,
                                  runs |-> Len(gate_runs), before |-> call.list,
                                  after |-> call.list]))
            /\ UNCHANGED blocklist_vars
    /\ block_call' = None
    /\ UNCHANGED <<env_vars, list_vars, log_vars, cursor_vars, poll_vars, queue_vars,
                   display_vars, submit_vars, budget, hist_poll_vars, hist_queue_vars>>
    /\ UNCHANGED <<ctl_vars, stop_display, queue_status, read_blocklist>>

\* /api/messages/clear: json.dump([], f)
ClearMessages ==
    /\ budget.clear > 0
    /\ budget' = [budget EXCEPT !.clear = @ - 1]
    /\ message_log' = <<>>
    /\ log_exists' = TRUE
    /\ UNCHANGED <<env_vars, list_vars, blocklist_vars, cursor_vars, poll_vars,
                   queue_vars, display_vars, submit_vars, hist_poll_vars,
                   hist_queue_vars, block_hist>>
    /\ UNCHANGED <<ctl_vars, route_vars>>

\* ListCopy handing out the deque itself, as queue_list = message_queue would
ListAlias(queue) == [alias |-> TRUE, items |-> queue]

\* list(message_queue): a new list of the same items
ListCopy(queue) == [alias |-> FALSE, items |-> queue]

\* QueueStatus without the item on display
QueueStatusNoCurrent(current, queue) ==
    [currently_displaying |-> None, queue |-> queue,
     queue_length |-> Len(queue.items)]

\* the status get_queue_status builds from what it read
QueueStatus(current, queue) ==
    [currently_displaying |-> current, queue |-> queue,
     queue_length |-> Len(queue.items)]

\* /api/queue/status: get_queue_status().  With queue_lock taken by the
\* sleeping worker the acquire can run into its timeout, and the status is
\* then an empty one
GetQueueStatus ==
    /\ budget.snap > 0
    /\ budget' = [budget EXCEPT !.snap = @ - 1]
    /\ queue_status' =
          IF queue_lock = "free"
          THEN Some(QueueStatus(currently_displaying, ListCopy(message_queue)))
          ELSE Some(QueueStatus(None, ListCopy(<<>>)))
    /\ UNCHANGED <<env_vars, list_vars, blocklist_vars, log_vars, cursor_vars,
                   poll_vars, queue_vars, display_vars, submit_vars,
                   hist_poll_vars, hist_queue_vars, block_hist, ctl_vars,
                   stop_display, read_blocklist, block_call>>

\* /api/blocklist: load_blocklist() up to the end of json.load, when the file
\* is there and nothing is cached or the stamp differs
GetBlocklistRead ==
    /\ budget.read > 0
    /\ read_blocklist = None
    /\ budget' = [budget EXCEPT !.read = @ - 1]
    /\ read_blocklist' =
          IF blocklist_file.exists
             /\ (blocklist_cache = None \/ blocklist_mtime # blocklist_file.mtime)
          THEN Some([mtime |-> blocklist_file.mtime,
                     lines |-> JsonList(blocklist_file.lines)])
          ELSE None
    /\ UNCHANGED <<env_vars, list_vars, blocklist_vars, log_vars, cursor_vars,
                   poll_vars, queue_vars, display_vars, submit_vars,
                   hist_poll_vars, hist_queue_vars, block_hist, ctl_vars,
                   stop_display, queue_status, block_call>>

\* /api/blocklist: load_blocklist() stores what it read, under the stamp it
\* saw before reading
GetBlocklistInstall ==
    /\ read_blocklist # None
    /\ blocklist_cache' = Some(read_blocklist[1].lines)
    /\ blocklist_mtime' = read_blocklist[1].mtime
    /\ read_blocklist' = None
    /\ block_call' = Detached(block_call)
    /\ UNCHANGED <<env_vars, list_vars, blocklist_file, log_vars, cursor_vars,
                   poll_vars, queue_vars, display_vars, submit_vars, budget,
                   hist_poll_vars, hist_queue_vars, block_hist, ctl_vars,
                   stop_display, queue_status>>

\* the steps of poll_twilio
PollStep ==
    \/ PollFetch
    \/ PollBlockGate
    \/ PollRateGate
    \/ PollNameGates
    \/ PollEnqueue
    \/ PollLogRead
    \/ PollLogWrite

\* the steps of display_worker
DisplayStep ==
    \/ DisplayIdle
    \/ DisplayWake
    \/ DisplayDequeue
    \/ DisplayStatusRead
    \/ DisplayStatusWrite
    \/ DisplaySendToFpp
    \/ DisplayHoldTick
    \/ DisplayHoldAndReturn
    \/ DisplayFinish

\* the steps of test_message_submission
SubmitStep ==
    \/ SubmitStart
    \/ SubmitEnqueue
    \/ SubmitLogRead
    \/ SubmitLogWrite

NoBudget ==
    [arrive |-> 0, age |-> 0, day |-> 0, submit |-> 0, block |-> 0, clear |-> 0,
     fail |-> 0, stop |-> 0, snap |-> 0, read |-> 0, outage |-> 0,
     raise |-> 0, enqfail |-> 0, call |-> 0, edit |-> 0,
     savefail |-> 0]

(***************************************************************************)
(* The whole program: both workers and every management route.             *)
(***************************************************************************)
Init ==
    InitWith(Configs, {NoSid, OldSid}, {NoBlocklistFile},
             [arrive |-> MaxMsgs, age |-> MaxAged, day |-> MaxDay,
              submit |-> MaxSubmits, block |-> MaxBlockOps, clear |-> MaxClears,
              fail |-> MaxFailures, stop |-> 1, snap |-> MaxSnapshots,
              read |-> MaxReads, outage |-> MaxOutages, raise |-> MaxRaises,
              enqfail |-> MaxEnqueueFailures, call |-> MaxBlockCalls,
              edit |-> MaxEdits, savefail |-> MaxSaveFailures])

Next ==
    \/ Arrive
    \/ AgeOut
    \/ NextDay
    \/ PollFetch
    \/ PollFetchFails
    \/ PollBlockGate
    \/ PollRateGate
    \/ PollNameGates
    \/ PollEnqueue
    \/ PollLogRead
    \/ PollLogWrite
    \/ DisplayIdle
    \/ DisplayWake
    \/ DisplayDequeue
    \/ DisplayStatusRead
    \/ DisplayStatusWrite
    \/ DisplaySendToFpp
    \/ DisplayHoldTick
    \/ DisplayHoldAndReturn
    \/ DisplayFinish
    \/ DisplayStop
    \/ Stop
    \/ GetQueueStatus
    \/ GetBlocklistRead
    \/ GetBlocklistInstall
    \/ SubmitStart
    \/ SubmitEnqueue
    \/ SubmitLogRead
    \/ SubmitLogWrite
    \/ Block
    \/ Unblock
    \/ BlockCallLoad
    \/ BlockCallSave
    \/ ClearMessages
    \/ EditList

Spec == Init /\ [][Next]_vars

(***************************************************************************)
(* The validation pipeline: a process that starts with a persisted cursor, *)
(* so that every message is new, with the display worker, a cleared        *)
(* history and one block or unblock request.                               *)
(***************************************************************************)
InitGates ==
    InitWith(Configs, {OldSid}, {NoBlocklistFile},
             [NoBudget EXCEPT !.arrive = MaxMsgs, !.block = 1, !.clear = MaxClears])

NextGates ==
    \/ Arrive
    \/ PollStep
    \/ DisplayStep
    \/ Block
    \/ Unblock
    \/ ClearMessages

SpecGates == InitGates /\ [][NextGates]_vars

(***************************************************************************)
(* The ingestion loop on its own: poll_twilio against a provider whose     *)
(* window moves, started with and without a persisted cursor.  Nothing     *)
(* else writes the cursor or decides what poll_twilio does next.           *)
(***************************************************************************)
InitPoll ==
    InitWith(Configs, {NoSid, OldSid}, {NoBlocklistFile},
             [NoBudget EXCEPT !.arrive = MaxMsgs + 1, !.age = MaxAged])

NextPoll ==
    \/ Arrive
    \/ AgeOut
    \/ PollStep

SpecPoll == InitPoll /\ [][NextPoll]_vars

(***************************************************************************)
(* The ingestion loop with a cursor file that cannot always be written:    *)
(* the same, save_last_sid failing up to MaxSaveFailures times.            *)
(***************************************************************************)
InitCursor ==
    InitWith({ConfigWhitelist}, {NoSid, OldSid}, {NoBlocklistFile},
             [NoBudget EXCEPT !.arrive = MaxMsgs + 1, !.age = MaxAged,
                              !.savefail = MaxSaveFailures])

NextCursor ==
    \/ Arrive
    \/ AgeOut
    \/ PollStep

SpecCursor == InitCursor /\ [][NextCursor]_vars

(***************************************************************************)
(* The profanity gate on its own: one message is waiting at the provider   *)
(* when the worker starts with a saved cursor; its text and the blacklist  *)
(* vary.                                                                   *)
(***************************************************************************)
\* one message from phone with the given text, not yet seen
Inbox(phones, bodies) ==
    {<<[sid |-> FirstSid, from_ |-> ph, body |-> b]>> : ph \in phones, b \in bodies}

InitProfanity ==
    InitFrom({ConfigRateLimit}, {OldSid}, {NoBlocklistFile}, NoBudget,
             Inbox(Phones, ProfanityBodies), {ListFile(WhitelistLines)},
             {ListFile(BlacklistLines), ListFile(SymbolBlacklistLines), NoListFile},
             {<<>>})

NextProfanity == PollStep

SpecProfanity == InitProfanity /\ [][NextProfanity]_vars

(***************************************************************************)
(* The whitelist gate on its own: whitelist mode on and off, the whitelist *)
(* as installed, empty, blank or missing.                                  *)
(***************************************************************************)
InitWhitelist ==
    InitFrom({ConfigWhitelist, ConfigRateLimit}, {OldSid}, {NoBlocklistFile}, NoBudget,
             Inbox(Phones, {Body_bob, Body_foo, Body_abc, Body_FOO, Body_barfoo}),
             {ListFile(WhitelistLines), ListFile(<<>>), ListFile(BlankWhitelistLines),
              NoListFile},
             {ListFile(BlacklistLines)}, {<<>>})

NextWhitelist == PollStep

SpecWhitelist == InitWhitelist /\ [][NextWhitelist]_vars

(***************************************************************************)
(* The policy lists under the operator's hands: whitelist.txt and          *)
(* blacklist.txt written, removed and made unreadable between messages,    *)
(* blocked_phones.json created by the first block.                         *)
(***************************************************************************)
InitLists ==
    InitFrom({ConfigWhitelist}, {OldSid}, {NoBlocklistFile},
             [NoBudget EXCEPT !.arrive = MaxMsgs, !.edit = MaxEdits, !.block = 1],
             {<<>>}, {NoListFile, ListFile(WhitelistLines)},
             {NoListFile, ListFile(BlacklistLines)}, {<<>>})

NextLists == Arrive \/ PollStep \/ EditList \/ Block

SpecLists == InitLists /\ [][NextLists]_vars

(***************************************************************************)
(* The format gate on its own: the three word-count policies against       *)
(* names of one, two and three words and of MaxNameLen characters and      *)
(* more.                                                                   *)
(***************************************************************************)
InitFormat ==
    InitFrom({ConfigOneWord, ConfigRateLimit, ConfigWhitelist}, {OldSid},
             {NoBlocklistFile}, NoBudget, Inbox(Phones, FormatBodies),
             {ListFile(WhitelistLines)}, {ListFile(BlacklistLines)}, {<<>>})

NextFormat == PollStep

SpecFormat == InitFormat /\ [][NextFormat]_vars

(***************************************************************************)
(* One batch: two messages are at the provider, the cursor is older than   *)
(* both or is the first of them (as the first run leaves it), the audit    *)
(* log has an entry of an earlier message, and the display worker runs     *)
(* beside the ingestion loop.                                              *)
(***************************************************************************)
\* two messages, the older first
Inbox2(phones, bodies) ==
    {<<[sid |-> FirstSid, from_ |-> p1, body |-> b1],
       [sid |-> FirstSid + 1, from_ |-> p2, body |-> b2]>> :
        p1 \in phones, p2 \in phones, b1 \in bodies, b2 \in bodies}

\* the audit log with one entry of today, displayed
OldLog == <<AuditEntry(0, "+15550002", Body_abc, ExtractNameOf[Body_abc][100], "displayed", 0)>>

InitBatch ==
    InitFrom({ConfigRateLimit}, {OldSid, FirstSid}, {NoBlocklistFile}, NoBudget,
             Inbox2(Phones, {Body_bob, Body_foo}), {ListFile(WhitelistLines)},
             {ListFile(BlacklistLines)}, {OldLog})

NextBatch ==
    \/ PollStep
    \/ DisplayStep

SpecBatch == InitBatch /\ [][NextBatch]_vars

(***************************************************************************)
(* Enqueueing: messages arrive and are processed while the display worker  *)
(* takes items off the queue; add_to_queue may fail.                       *)
(***************************************************************************)
InitEnqueue ==
    InitWith({ConfigWhitelist}, {OldSid}, {NoBlocklistFile},
             [NoBudget EXCEPT !.arrive = MaxMsgs, !.enqfail = MaxEnqueueFailures])

NextEnqueue ==
    \/ Arrive
    \/ PollStep
    \/ DisplayStep

SpecEnqueue == InitEnqueue /\ [][NextEnqueue]_vars

(***************************************************************************)
(* The rate-limit and duplicate gates against the audit log an earlier     *)
(* run left: up to LogCap entries of any sender and status, written on     *)
(* day 0; one message is waiting, and the date may change before it is     *)
(* processed.                                                              *)
(***************************************************************************)
\* every status log_message is called with
LoggedStatuses == AcceptedStatuses \cup RejectionStatuses \cup {"error"}

\* entries for the name Bob, written on day 0
OldEntries ==
    {AuditEntry(0, ph, Body_bob, ExtractNameOf[Body_bob][100], st, 0) :
        ph \in Phones, st \in LoggedStatuses}

OldLogs ==
    {<<>>} \cup {<<e>> : e \in OldEntries}
           \cup {<<e1, e2>> : e1 \in OldEntries, e2 \in OldEntries}

InitQuota ==
    InitFrom({ConfigRateLimit, ConfigRateLimitTwo, ConfigWhitelist}, {OldSid},
             {NoBlocklistFile}, [NoBudget EXCEPT !.day = MaxDay],
             Inbox({"+15550001"}, {Body_bob, Body_foo}), {ListFile(WhitelistLines)},
             {ListFile(BlacklistLines)}, OldLogs)

NextQuota ==
    \/ PollStep
    \/ NextDay

SpecQuota == InitQuota /\ [][NextQuota]_vars

(***************************************************************************)
(* The blocklist: block and unblock requests against the ingestion loop.   *)
(***************************************************************************)
InitBlock ==
    InitWith(Configs, {OldSid}, {NoBlocklistFile},
             [NoBudget EXCEPT !.arrive = MaxMsgs, !.block = MaxBlockOps])

NextBlock ==
    \/ Arrive
    \/ PollStep
    \/ Block
    \/ Unblock

SpecBlock == InitBlock /\ [][NextBlock]_vars

(***************************************************************************)
(* The display queue: the ingestion loop and the test route enqueue while  *)
(* the display worker consumes.                                            *)
(***************************************************************************)
InitDisplay ==
    InitWith({ConfigWhitelist}, {OldSid}, {NoBlocklistFile},
             [NoBudget EXCEPT !.arrive = MaxMsgs, !.submit = MaxSubmits])

NextDisplay ==
    \/ Arrive
    \/ PollStep
    \/ DisplayStep
    \/ SubmitStep

SpecDisplay == InitDisplay /\ [][NextDisplay]_vars

(***************************************************************************)
(* The test route beside the ingestion loop: candidates for a sender who   *)
(* also texts, with and without a daily limit, senders being blocked.      *)
(***************************************************************************)
InitSubmit ==
    InitWith({ConfigRateLimit, ConfigWhitelist}, {OldSid}, {NoBlocklistFile},
             [NoBudget EXCEPT !.arrive = 1, !.submit = MaxSubmits, !.block = 1])

NextSubmit ==
    \/ Arrive
    \/ PollStep
    \/ SubmitStep
    \/ Block

SpecSubmit == InitSubmit /\ [][NextSubmit]_vars

(***************************************************************************)
(* The display worker under fair scheduling: display_worker is a thread of *)
(* its own (line 1933) and is given the processor again and again, so a    *)
(* step of it that stays possible is taken.  Requests to FPP fail, and the *)
(* status updates fail while messages.json does not exist.                 *)
(***************************************************************************)
InitLive ==
    InitWith({ConfigWhitelist}, {OldSid}, {NoBlocklistFile},
             [NoBudget EXCEPT !.arrive = MaxMsgs, !.fail = MaxFailures + 1])

NextLive ==
    \/ Arrive
    \/ PollStep
    \/ DisplayStep

SpecLive == InitLive /\ [][NextLive]_vars /\ WF_vars(DisplayStep)

(***************************************************************************)
(* Both workers under fair scheduling: poll_twilio and display_worker are  *)
(* threads (lines 1933, 1935) and each is given the processor again and    *)
(* again, so a step of either that stays possible is taken.  queue_lock is *)
(* a threading.Lock, which promises no order among the threads that want   *)
(* it: a thread that keeps finding it taken has no claim on it, and the    *)
(* fairness of the threads is weak fairness.  Of poll_twilio the step that *)
(* waits for the lock is the one whose fairness is stated.                 *)
(***************************************************************************)
InitFair ==
    InitWith({ConfigWhitelist}, {OldSid}, {NoBlocklistFile},
             [NoBudget EXCEPT !.arrive = MaxMsgs])

NextFair ==
    \/ Arrive
    \/ PollStep
    \/ DisplayStep

SpecFair == InitFair /\ [][NextFair]_vars /\ WF_vars(PollEnqueue) /\ WF_vars(DisplayStep)

\* the same with a lock that is handed to a thread that wants it again and
\* again, which threading.Lock is not
SpecFairLock == SpecFair /\ SF_vars(PollEnqueue)

(***************************************************************************)
(* The display controller: the worker's requests to FPP with and without   *)
(* an overlay model configured, some of them failing.                      *)
(***************************************************************************)
InitReturn ==
    InitWith({ConfigWhitelist, ConfigNoOverlay}, {OldSid}, {NoBlocklistFile},
             [NoBudget EXCEPT !.arrive = MaxMsgs, !.fail = MaxFailures])

NextReturn ==
    \/ Arrive
    \/ PollStep
    \/ DisplayStep

SpecReturn == InitReturn /\ [][NextReturn]_vars

(***************************************************************************)
(* The audit log: enough messages for log_message to drop the oldest       *)
(* entry, logged by the ingestion loop while the display worker updates    *)
(* statuses.                                                               *)
(***************************************************************************)
InitLog ==
    InitWith({ConfigWhitelist}, {OldSid}, {NoBlocklistFile},
             [NoBudget EXCEPT !.arrive = LogCap + 1])

NextLog ==
    \/ Arrive
    \/ PollStep
    \/ DisplayStep

SpecLog == InitLog /\ [][NextLog]_vars

(***************************************************************************)
(* The history cleared: /api/messages/clear is served in a thread of its   *)
(* own while the ingestion loop logs and the display worker updates.       *)
(***************************************************************************)
InitClear ==
    InitWith({ConfigWhitelist}, {OldSid}, {NoBlocklistFile},
             [NoBudget EXCEPT !.arrive = MaxMsgs, !.clear = MaxClears])

NextClear ==
    \/ Arrive
    \/ PollStep
    \/ DisplayStep
    \/ ClearMessages

SpecClear == InitClear /\ [][NextClear]_vars

(***************************************************************************)
(* The blocklist cache: /api/blocklist reads blocked_phones.json left by   *)
(* an earlier process while block and unblock requests rewrite it and the  *)
(* ingestion loop asks is_blocked.  Each runs in a thread of its own.      *)
(***************************************************************************)
InitCache ==
    InitWith({ConfigWhitelist}, {OldSid}, {OldBlocklistFile},
             [NoBudget EXCEPT !.arrive = MaxMsgs, !.block = MaxBlockOps,
                              !.read = MaxReads + 1])

NextCache ==
    \/ Arrive
    \/ PollStep
    \/ Block
    \/ Unblock
    \/ GetBlocklistRead
    \/ GetBlocklistInstall

SpecCache == InitCache /\ [][NextCache]_vars

(***************************************************************************)
(* Two requests at once: a block or unblock request is between its         *)
(* load_blocklist and its save_blocklist while other requests run and the  *)
(* ingestion loop asks is_blocked; blocked_phones.json is missing at the   *)
(* start (a new installation) or left by an earlier process.               *)
(***************************************************************************)
InitOverlap ==
    InitWith({ConfigWhitelist}, {OldSid}, {NoBlocklistFile, OldBlocklistFile},
             [NoBudget EXCEPT !.arrive = 1, !.block = MaxBlockOps,
                              !.call = MaxBlockCalls])

NextOverlap ==
    \/ Arrive
    \/ PollStep
    \/ Block
    \/ Unblock
    \/ BlockCallLoad
    \/ BlockCallSave

SpecOverlap == InitOverlap /\ [][NextOverlap]_vars

(***************************************************************************)
(* Shutdown: stop_display is raised at some moment of the worker's loop.   *)
(***************************************************************************)
InitStop ==
    InitWith({ConfigWhitelist}, {OldSid}, {NoBlocklistFile},
             [NoBudget EXCEPT !.arrive = MaxMsgs, !.stop = 1])

NextStop ==
    \/ Arrive
    \/ PollStep
    \/ DisplayStep
    \/ DisplayStop
    \/ Stop

SpecStop == InitStop /\ [][NextStop]_vars

(***************************************************************************)
(* The queue status route: /api/queue/status is served while the ingestion *)
(* loop enqueues and the display worker consumes.                          *)
(***************************************************************************)
InitSnap ==
    InitWith({ConfigWhitelist}, {OldSid}, {NoBlocklistFile},
             [NoBudget EXCEPT !.arrive = MaxMsgs, !.snap = MaxSnapshots])

NextSnap ==
    \/ Arrive
    \/ PollStep
    \/ DisplayStep
    \/ GetQueueStatus

SpecSnap == InitSnap /\ [][NextSnap]_vars

(***************************************************************************)
(* The provider out of reach: some polls fail in messages.list, with and   *)
(* without a persisted cursor.                                             *)
(***************************************************************************)
InitOutage ==
    InitWith(Configs, {NoSid, OldSid}, {NoBlocklistFile},
             [NoBudget EXCEPT !.arrive = MaxMsgs, !.outage = MaxOutages + 1])

NextOutage ==
    \/ Arrive
    \/ PollStep
    \/ PollFetchFails

SpecOutage == InitOutage /\ [][NextOutage]_vars

(***************************************************************************)
(* Processing failures: the ingestion loop with the rate limit saved as    *)
(* null, and with a proper one.                                            *)
(***************************************************************************)
InitRaise ==
    InitWith({ConfigRateLimit, ConfigNullLimit}, {OldSid}, {NoBlocklistFile},
             [NoBudget EXCEPT !.arrive = MaxMsgs, !.block = 1, !.raise = MaxRaises])

NextRaise ==
    \/ Arrive
    \/ PollStep
    \/ Block

SpecRaise == InitRaise /\ [][NextRaise]_vars

(***************************************************************************)
(* Properties.                                                             *)
(***************************************************************************)
NoRepeat(s) == \A i, j \in DOMAIN s : s[i] = s[j] => i = j

FirstRunPoll == first_run /\ ~first_run'

SixGates == <<"block", "rate", "duplicate", "format", "whitelist", "profanity">>

\* the status each gate gives a message it rejects
RejectionOf ==
    [block |-> "blocked", rate |-> "rate_limited", duplicate |-> "duplicate_name_today",
     format |-> "invalid_format", whitelist |-> "not_on_whitelist",
     profanity |-> "profanity"]

\* the message poll_twilio is working on has its status decided
Decided == pc_poll \in {"log_read", "log_write"}

\* the decision follows the gates: they ran in order, each one only after the
\* ones before it passed, and the status is that of the one that failed
DecidedByFirstFailing ==
    LET n == Len(gate_trace)
        sid == Head(new_messages).sid IN
    /\ n \in 1..Len(SixGates)
    /\ \A k \in 1..n : gate_trace[k].gate = SixGates[k]
    /\ \A k \in 1..(n - 1) : gate_trace[k].pass
    /\ IF gate_trace[n].pass
       THEN n = Len(SixGates) /\ poll_status = "queued" /\ sid \in enqueued_sids
       ELSE poll_status = RejectionOf[SixGates[n]] /\ sid \notin enqueued_sids

\* the messages whose processing is over
Finished ==
    IF pc_poll \in {"poll", "block"} THEN gate_runs
    ELSE SubSeq(gate_runs, 1, Len(gate_runs) - 1)

\* one call of log_message for each finished message, in processing order
OneAuditEach ==
    /\ Len(audit_calls) = Len(Finished)
    /\ \A i \in DOMAIN audit_calls :
          /\ audit_calls[i].sid = Finished[i]
          /\ audit_calls[i].status \in RejectionStatuses \cup {"queued"}
          /\ audit_calls[i].status = "queued" <=> audit_calls[i].sid \in enqueued_sids
    /\ NoRepeat(gate_runs)

\* the step of log_message in poll_twilio
PollLogs == pc_poll = "log_write" /\ pc_poll' # "log_write"

ApprovedName ==
    /\ config.use_whitelist
    /\ whitelist_file.exists
    /\ NonBlankLines(whitelist_file.lines) # <<>>
    /\ Strip(Lower(poll_name)) \in Range(NonBlankLines(whitelist_file.lines))
    /\ \E k \in DOMAIN gate_trace : gate_trace[k] = [gate |-> "whitelist", pass |-> TRUE]

\* the raw text of the message being processed holds a blacklist term as a
\* whole word, and the filter is on
ProfaneBody ==
    /\ config.profanity_filter
    /\ blacklist_file.exists
    /\ \E w \in Range(NonBlankLines(blacklist_file.lines)) :
          PatternSearch(w, Lower(Head(new_messages).body))

\* C4 as stated: with whitelist mode on and a non-empty whitelist, a message
\* whose extracted name is on the whitelist is never rejected by the
\* profanity gate, even when its text matches a blacklist term.
C4_ApprovedBypassesProfanity ==
    (Decided /\ ApprovedName) => poll_status # "profanity"

\* C4 amended: a message whose name passed the whitelist gate still goes
\* through the profanity gate; it ends as profanity exactly when the filter is
\* on and its raw text holds a blacklist term as a whole word, and as queued
\* otherwise.
C4_ApprovedStillFiltered ==
    (Decided /\ ApprovedName) =>
        IF ProfaneBody THEN poll_status = "profanity" ELSE poll_status = "queued"

\* C4 witness: an approved name is being logged as profanity
C4_Witness ==
    /\ pc_poll = "log_write"
    /\ ApprovedName
    /\ poll_status = "profanity"

\* audit calls i and j are of the same sender on the same day, i before j,
\* with no clearing of the history and no truncation of entry i in between
SameSenderSameDay(i, j) ==
    /\ i < j
    /\ audit_calls[i].phone = audit_calls[j].phone
    /\ audit_calls[i].day = audit_calls[j].day
    /\ audit_calls[i].clears = audit_calls[j].clears
    /\ j - i <= LogCap

\* C5: once a sender has had a name accepted today, every later message of
\* that sender of the same day with the same name (case-insensitively) is
\* turned away, as duplicate_name_today unless an earlier gate (block, rate
\* limit) already rejected it, and is not enqueued, whatever displays and
\* status updates happen in between.
C5_DuplicateRejected ==
    \A i, j \in DOMAIN audit_calls :
        (/\ SameSenderSameDay(i, j)
         /\ audit_calls[i].status = "queued"
         /\ Lower(audit_calls[i].name) = Lower(audit_calls[j].name))
        => /\ audit_calls[j].status \in {"duplicate_name_today", "blocked", "rate_limited"}
           /\ audit_calls[j].sid \notin enqueued_sids

\* C6: with max_messages_per_phone = N > 0, once a sender has had N messages
\* processed today, every further message of that sender of the same day is
\* rate_limited (or blocked, when the sender is on the blocklist), whatever
\* its content.
C6_RateLimited ==
    \A j \in DOMAIN audit_calls :
        LET earlier == {i \in DOMAIN audit_calls : SameSenderSameDay(i, j)} IN
        (config.max_messages_per_phone > 0
         /\ Cardinality(earlier) >= config.max_messages_per_phone)
        => audit_calls[j].status \in {"rate_limited", "blocked"}

\* the step of the block gate
BlockGateRuns == pc_poll = "block" /\ gate_runs' # gate_runs

\* the blocklist as stored: the content of blocked_phones.json
StoredBlocklist == IF blocklist_file.exists THEN Range(blocklist_file.lines) ELSE {}

\* C7: a polled message whose sender is in the blocklist when it is
\* processed is rejected as blocked by the first gate, before any other gate
\* runs, and is never enqueued.
C7_BlockedAtFirstGate ==
    [][/\ (BlockGateRuns /\ Head(new_messages).from_ \in StoredBlocklist) =>
            /\ poll_status' = "blocked"
            /\ pc_poll' = "log_read"
            /\ Len(gate_trace') = 1
       /\ (Decided' /\ poll_status' = "blocked") =>
            Head(new_messages').sid \notin enqueued_sids'
       /\ \A i \in DOMAIN audit_calls' :
            audit_calls'[i].status = "blocked" => audit_calls'[i].sid \notin enqueued_sids']_vars

\* C7 witness: a message of a blocked sender is being logged as blocked
\* while the sender is still on the stored blocklist
C7_Witness ==
    /\ pc_poll = "log_write"
    /\ poll_status = "blocked"
    /\ Head(new_messages).from_ \in StoredBlocklist

\* the last two calls were block(S), which succeeded, and then unblock(S)
RoundTrip ==
    /\ Len(block_hist) = 2
    /\ block_hist[1].op = "block"
    /\ block_hist[1].ok
    /\ block_hist[2].op = "unblock"
    /\ block_hist[2].phone = block_hist[1].phone

\* what each call of block and unblock did to the list
BlockCallsRight ==
    \A k \in DOMAIN block_hist :
        LET c == block_hist[k]
            was == c.phone \in Range(c.before) IN
        /\ c.op = "block" /\ was => ~c.ok /\ c.after = c.before
        /\ c.op = "block" /\ ~was => c.ok /\ c.after = Append(c.before, c.phone)
        /\ c.op = "unblock" /\ ~was => ~c.ok /\ c.after = c.before
        /\ c.op = "unblock" /\ was => c.ok /\ c.phone \notin Range(c.after)

\* C8: block(S) then unblock(S) leaves the blocklist with the content it had
\* before the block, and a later message of S passes the block gate; block of
\* a blocked S and unblock of a non-blocked S change nothing and report
\* failure.
C8_BlockUnblockRoundTrip ==
    [][/\ BlockCallsRight'
       /\ RoundTrip' =>
            /\ block_hist'[2].ok
            /\ block_hist'[2].after = block_hist'[1].before
            /\ StoredBlocklist' = Range(block_hist'[1].before)
       /\ (BlockGateRuns /\ Head(new_messages).from_ \notin StoredBlocklist) =>
            /\ pc_poll' = "rate"
            /\ poll_status' # "blocked"]_vars

\* C8 witness: after block(S) and unblock(S), a message of S that reached
\* the gates after the unblock is being logged as queued
C8_Witness ==
    /\ RoundTrip
    /\ pc_poll = "log_write"
    /\ poll_status = "queued"
    /\ Head(new_messages).from_ = block_hist[2].phone
    /\ Len(gate_runs) > block_hist[2].runs

\* the items are taken in the order they were appended, and the ones still
\* waiting are the next ones in that order
InAppendOrder ==
    /\ \A i \in DOMAIN dequeued : dequeued[i] = i
    /\ \A k \in DOMAIN message_queue : message_queue[k].seq = Len(dequeued) + k
    /\ Len(dequeued) + Len(message_queue) = enq_count

\* C9: items are shown in exactly the order in which they were enqueued,
\* under any interleaving of enqueues with the display worker, and a display
\* in progress is never preempted: the item on display changes only at the
\* end of its own cycle.
C9_FifoNoPreemption ==
    [][/\ InAppendOrder'
       /\ (currently_displaying # None /\ currently_displaying' # currently_displaying) =>
            /\ pc_display = "finish"
            /\ currently_displaying' = None]_vars

\* C9 witness: two items have been shown, the second one appended while the
\* first was on display, and a third is waiting
C9_Witness ==
    /\ Len(dequeued) = 2
    /\ message_queue # <<>>
    /\ pc_display = "hold"

\* the positions of display_worker between its popleft and the end of the
\* status update that ends the cycle
InCycle == pc_display \in {"displaying_read", "displaying_write", "show",
                           "hold", "displayed_read", "displayed_write"}

\* C10: at most one item is being displayed at any instant: the worker takes
\* the next item only after the hold, the clear and the status update of the
\* current one are over.
C10_SingleInFlight ==
    LET busy == Len(dequeued) - cycles_done IN
    /\ busy \in {0, 1}
    /\ busy = 1 <=> InCycle
    /\ InCycle => /\ currently_displaying # None
                  /\ currently_displaying[1].seq = dequeued[Len(dequeued)]
    /\ currently_displaying # None => InCycle \/ pc_display = "finish"

\* C10 witness: an item is held on the display after an earlier cycle, while
\* another one waits in the queue
C10_Witness ==
    /\ pc_display = "hold"
    /\ cycles_done >= 1
    /\ message_queue # <<>>

\* the worker has the item with this number on display and has not yet
\* finished the status update that ends its cycle
OnDisplay(n) ==
    /\ currently_displaying # None
    /\ currently_displaying[1].seq = n
    /\ pc_display \in {"show", "hold", "displayed_read", "displayed_write"}

\* the item with this number waits in the queue, or has just been taken and
\* the update to displaying is still under way
NotYetShown(n) ==
    \/ \E k \in DOMAIN message_queue : message_queue[k].seq = n
    \/ /\ currently_displaying # None
       /\ currently_displaying[1].seq = n
       /\ pc_display \in {"displaying_read", "displaying_write"}

\* the cycle of the item with this number is over
CycleOver(n) ==
    \E k \in DOMAIN dequeued :
        /\ dequeued[k] = n
        /\ k <= cycles_done \/ pc_display = "finish"

\* C11: the audit entry written for an accepted item is queued until the
\* item is dequeued, displaying from then until the hold and the clear are
\* over, and displayed afterwards; and only an item's own entry is ever set
\* to displaying or displayed.
C11_StatusPath ==
    \A i \in DOMAIN message_log :
        LET entry == message_log[i] IN
        /\ entry.item = 0 => entry.status \notin {"displaying", "displayed"}
        /\ entry.item > 0 =>
             /\ entry.status \in {"queued", "displaying", "displayed"}
             /\ entry.status = "queued" => NotYetShown(entry.item)
             /\ entry.status = "displaying" => OnDisplay(entry.item)
             /\ entry.status = "displayed" => CycleOver(entry.item)

\* a request to FPP of the current cycle did not come back
SomeCallFailed == \E i \in DOMAIN fpp_calls : ~fpp_calls[i].ok

\* C12: under fair scheduling of the display worker every item that was
\* appended to the queue is taken and its cycle is brought to its end,
\* whether or not the requests to FPP and the status updates succeed.
C12_WorkerProgress ==
    \A n \in 1..MaxMsgs : (enq_count >= n) ~> (cycles_done >= n)

\* C12 witness: a cycle in which a request to FPP failed is at its end
C12_Witness ==
    /\ pc_display = "finish"
    /\ SomeCallFailed
    /\ cycles_done = Len(dequeued)

\* the commands of the requests a step adds to those of the current cycle
IssuedNow(before, after) ==
    IF Len(after) > Len(before)
    THEN [i \in 1..(Len(after) - Len(before)) |-> after[Len(before) + i].command]
    ELSE <<>>

\* one command when the condition holds, none otherwise
When(condition, command) == IF condition THEN <<command>> ELSE <<>>

\* the command is among those of a sequence
Among(command, commands) == \E i \in DOMAIN commands : commands[i] = command

\* the step in which the worker comes back from the hold
HoldEnds == pc_display = "hold" /\ pc_display' = "displayed_read"

\* C13 as stated: after the hold the worker always issues clear, and then
\* resume exactly when the queue is empty at the check; clear and resume are
\* issued by no other step, so nothing is resumed while an item that was
\* pending at the check waits to be shown.
C13_AlwaysClears ==
    [][LET issued == IssuedNow(fpp_calls, fpp_calls') IN
       IF HoldEnds
       THEN issued = <<"clear">> \o When(message_queue = <<>>, "resume")
       ELSE ~Among("clear", issued) /\ ~Among("resume", issued)]_vars

\* C13 amended: after the hold the worker issues clear when an overlay model
\* is configured and no clear otherwise, and then resume exactly when the
\* queue is empty at the check; clear and resume are issued by no other step.
C13_ClearsOverlayOnly ==
    [][LET issued == IssuedNow(fpp_calls, fpp_calls') IN
       IF HoldEnds
       THEN issued = When(config.overlay_model_name, "clear")
                     \o When(message_queue = <<>>, "resume")
       ELSE ~Among("clear", issued) /\ ~Among("resume", issued)]_vars

\* C13 witness: without an overlay model the hold of an item is over, the
\* queue was empty and resume is the only request that was made
C13_Witness ==
    /\ pc_display = "displayed_read"
    /\ ~config.overlay_model_name
    /\ fpp_calls # <<>>
    /\ fpp_calls[Len(fpp_calls)].command = "resume"
    /\ \A i \in DOMAIN fpp_calls : fpp_calls[i].command # "clear"

\* two audit entries that differ in nothing but the status and its stamp
SameButStatus(a, b) ==
    [a EXCEPT !.status = b.status, !.status_updated = b.status_updated] = b

\* the step in which log_message of poll_twilio writes the log back
AppendWrites == pc_poll = "log_write" /\ pc_poll' # "log_write"

\* the step in which update_message_status of display_worker writes it back
UpdateWrites ==
    /\ pc_display \in {"displaying_write", "displayed_write"}
    /\ pc_display' # pc_display

\* C14: the append of the ingestion worker and the status update of the
\* display worker do not overwrite each other: the append writes the log as
\* it is with the new entry at its end (the oldest entries dropped beyond
\* the cap), and the status update writes the log as it is with nothing but
\* statuses changed.
C14_LogOperationsAtomic ==
    [][/\ AppendWrites =>
            message_log' = LastEntries(Append(message_log,
                                              message_log'[Len(message_log')]))
       /\ UpdateWrites =>
            /\ Len(message_log') = Len(message_log)
            /\ \A i \in DOMAIN message_log :
                   SameButStatus(message_log[i], message_log'[i])]_vars

\* the last entries of a sequence, at most n of them
LastOf(s, n) == IF Len(s) > n THEN SubSeq(s, Len(s) - n + 1, Len(s)) ELSE s

\* the audit entry is the one written by this call of log_message, with the
\* status it was given or one the display worker has set since
EntryOfCall(entry, call) ==
    /\ entry.phone_full = call.phone
    /\ entry.extracted_name = call.name
    /\ entry.timestamp = call.day
    /\ IF call.status = "queued" THEN entry.status \in AcceptedStatuses
       ELSE entry.status = call.status

\* C15: the log never holds more entries than the cap, and what it holds
\* after an append are the entries of the most recent calls of log_message,
\* in the order of the calls.
C15_LogHoldsLatest ==
    [][/\ Len(message_log') <= LogCap
       /\ AppendWrites =>
            LET latest == LastOf(audit_calls', LogCap) IN
            /\ Len(message_log') = Len(latest)
            /\ \A i \in DOMAIN latest : EntryOfCall(message_log'[i], latest[i])]_vars

\* C16: the blocklist cache is replaced only by the content of the file as
\* it is then, its stamp never goes back to an older one, and it changes
\* only on first access, on a stamp that differs from the file's, or in a
\* block or unblock request: content cached for a newer stamp is never
\* replaced by older content.
C16_CacheNeverReverts ==
    [][/\ blocklist_mtime' >= blocklist_mtime
       /\ blocklist_cache' # blocklist_cache =>
            /\ blocklist_cache' = Some(blocklist_file'.lines)
            /\ blocklist_mtime' = blocklist_file'.mtime
            /\ \/ blocklist_cache = None
               \/ blocklist_mtime # blocklist_file.mtime
               \/ blocklist_file' # blocklist_file]_vars

\* a block or unblock request has written the file and returned
WriteReturned == \E i \in DOMAIN block_hist : block_hist[i].ok

\* C17: once block(S) or unblock(S) has written the file and returned,
\* is_blocked answers for every phone as the file says, and the cache holds
\* the file's content under the file's stamp, so that the next read does
\* not load the file again.
C17_WriteVisibleNoReload ==
    WriteReturned =>
        /\ \A phone \in Phones :
               IsBlocked(phone, LoadBlocklist(blocklist_file, blocklist_cache,
                                              blocklist_mtime).value)
                 <=> phone \in StoredBlocklist
        /\ blocklist_cache = Some(blocklist_file.lines)
        /\ blocklist_mtime = blocklist_file.mtime

\* C18: with the stop signal raised while an item is held on the display,
\* the worker does not go on with the hold and leaves it only to stop; with
\* the signal raised between two cycles it starts no other cycle.
C18_HoldInterruptible ==
    [][stop_display =>
         /\ pc_display = "hold" =>
              /\ hold_left' = hold_left
              /\ pc_display' \in {"hold", "stopped"}
         /\ pc_display = "check" => pc_display' \in {"check", "stopped"}]_vars

\* how often the item with this number was taken from the queue
TimesTaken(n) == Cardinality({k \in DOMAIN dequeued : dequeued[k] = n})

\* how often it is in the queue
TimesWaiting(n) ==
    Cardinality({k \in DOMAIN message_queue : message_queue[k].seq = n})

\* C19: every item appended to the queue is either still waiting in it, once,
\* or was taken from it by the display worker, once: none is taken twice and
\* none leaves the queue in another way; and between two cycles the worker
\* holds no item.
C19_ConsumedExactlyOnce ==
    /\ \A n \in 1..enq_count : TimesTaken(n) + TimesWaiting(n) = 1
    /\ \A k \in DOMAIN message_queue : message_queue[k].seq \in 1..enq_count
    /\ \A k \in DOMAIN dequeued : dequeued[k] \in 1..enq_count
    /\ pc_display \in {"check", "sleep"} => currently_displaying = None
    /\ currently_displaying # None => TimesTaken(currently_displaying[1].seq) = 1

\* C19 witness: two items have been shown and let go, another one waits
C19_Witness ==
    /\ cycles_done = 2
    /\ Len(dequeued) = 2
    /\ pc_display = "check"
    /\ currently_displaying = None
    /\ Len(message_queue) = 1

\* what a status that was returned shows to whoever holds it: the list it
\* was given, or the deque as it is now when the list is the deque itself
Shown(status, queue) ==
    IF status = None THEN None
    ELSE Some([currently_displaying |-> status[1].currently_displaying,
               queue |-> IF status[1].queue.alias THEN queue
                         ELSE status[1].queue.items])

\* the step is a call of get_queue_status
StatusTaken == budget'.snap < budget.snap

\* C20: a call of get_queue_status changes nothing but what it returns; what
\* it returns with the lock in hand is the item on display and the waiting
\* items as they are then; and a status that was returned shows the same
\* whatever is enqueued or dequeued afterwards.
C20_SnapshotIsCopy ==
    [][/\ StatusTaken =>
            /\ UNCHANGED <<env_vars, list_vars, blocklist_vars, log_vars,
                           cursor_vars, poll_vars, queue_vars, display_vars,
                           submit_vars, hist_poll_vars, hist_queue_vars,
                           block_hist, ctl_vars, stop_display, read_blocklist>>
            /\ queue_lock = "free" =>
                  Shown(queue_status', message_queue') =
                     Some([currently_displaying |-> currently_displaying,
                           queue |-> message_queue])
       /\ ~StatusTaken =>
            Shown(queue_status', message_queue') = Shown(queue_status, message_queue)]_vars

\* C20 witness: a status returned with two items waiting is still held after
\* the worker has taken one of them
C20_Witness ==
    /\ queue_status # None
    /\ Len(queue_status[1].queue.items) = 2
    /\ Len(message_queue) < 2
    /\ Len(dequeued) >= 1

\* the step is a poll in which the call to the provider failed
PollFailed == budget'.outage < budget.outage

\* C21: a poll in which the call to the provider fails processes no message
\* (nothing reaches the gates, the queue or the log), leaves the cursor in
\* memory and on disk where it was, does not use up the first run, and
\* leaves the worker at the start of another poll.
C21_FailedPollChangesNothing ==
    [][PollFailed =>
         /\ UNCHANGED <<last_message_sid, sid_file, first_run>>
         /\ UNCHANGED <<gate_runs, audit_calls, message_log, log_exists,
                        message_queue, new_messages>>
         /\ pc_poll = "poll" /\ pc_poll' = "poll"]_vars

\* C21 witness: the first poll of a process without a cursor has failed
\* while a message was listed, and the first run is still to come
C21_Witness ==
    /\ budget.outage < MaxOutages + 1
    /\ first_run
    /\ last_message_sid = NoSid
    /\ provider # <<>>
    /\ pc_poll = "poll"

\* the step ends the processing of the message at the head of the batch
MessageEnds ==
    /\ pc_poll # "poll"
    /\ new_messages # <<>>
    /\ new_messages' # new_messages

\* C22: whenever the processing of a message ends, whatever its outcome,
\* the cursor in memory and on disk is that message's id from that step on,
\* before the next message of the batch is started.
C22_CursorAfterEveryMessage ==
    [][MessageEnds =>
         /\ last_message_sid' = Head(new_messages).sid
         /\ sid_file' = Head(new_messages).sid]_vars

(***************************************************************************)
(* C23: the profanity gate.                                                *)
(***************************************************************************)
\* term stands in text at position i with no word character (letter, digit,
\* underscore) next to it on either side
WholeWordAt(term, text, i) ==
    /\ SubSeq(text, i, i + Len(term) - 1) = term
    /\ (i = 1 \/ ~IsWordChar(text[i - 1]))
    /\ (i + Len(term) > Len(text) \/ ~IsWordChar(text[i + Len(term)]))

OccursAsWholeWord(term, text) ==
    \E i \in 1..(Len(text) - Len(term) + 1) : WholeWordAt(term, text, i)

\* the terms of blacklist.txt: its non-blank lines without the white space
\* around them
BlacklistTerms ==
    IF blacklist_file.exists
    THEN {Strip(blacklist_file.lines[k]) : k \in {j \in DOMAIN blacklist_file.lines :
                                                    Strip(blacklist_file.lines[j]) # <<>>}}
    ELSE {}

\* some term of the blacklist stands as a whole word in the raw text of the
\* message in hand, letter case aside
TermInBody ==
    \E t \in BlacklistTerms : OccursAsWholeWord(Lower(t), Lower(Head(new_messages).body))

\* the profanity gate has been evaluated for the message in hand
ProfanityGateRan ==
    /\ pc_poll \in {"enqueue", "log_read", "log_write"}
    /\ config.profanity_filter
    /\ \E k \in DOMAIN gate_trace : gate_trace[k].gate = "profanity"

\* C23: with the filter on, the profanity gate flags the message exactly
\* when some blacklist term occurs, letter case aside, as a whole word of the
\* raw message text; a term that is only part of a longer word is not flagged.
C23_FlagsWholeWordsOfBody ==
    ProfanityGateRan =>
        \A k \in DOMAIN gate_trace :
            gate_trace[k].gate = "profanity" => (gate_trace[k].pass <=> ~TermInBody)

\* the blacklist has only terms that begin and end with a word character
WordLikeTerms ==
    \A t \in BlacklistTerms : IsWordChar(t[1]) /\ IsWordChar(t[Len(t)])

\* C23 for blacklists of word-like terms
C23_FlagsWholeWordsOfWordLikeTerms ==
    WordLikeTerms => C23_FlagsWholeWordsOfBody

(***************************************************************************)
(* C24: the whitelist gate.                                                *)
(***************************************************************************)
\* the names of whitelist.txt, letter case aside: its non-blank lines
WhitelistNames ==
    IF whitelist_file.exists
    THEN {Lower(Strip(whitelist_file.lines[k])) :
             k \in {j \in DOMAIN whitelist_file.lines : Strip(whitelist_file.lines[j]) # <<>>}}
    ELSE {}

\* the whitelist gate has been evaluated for the message in hand
WhitelistGateRan ==
    /\ pc_poll \in {"enqueue", "log_read", "log_write"}
    /\ \E k \in DOMAIN gate_trace : gate_trace[k].gate = "whitelist"

\* whitelist mode is on, the whitelist has names, the extracted name is none
\* of them
NotOnWhitelist ==
    /\ config.use_whitelist
    /\ WhitelistNames # {}
    /\ Lower(poll_name) \notin WhitelistNames

\* C24: the whitelist gate rejects, with status not_on_whitelist, exactly
\* when whitelist mode is on, the whitelist is not empty and the extracted
\* name, letter case aside, is not on it; with the mode off or the whitelist
\* empty or missing every name passes.
C24_RejectsOnlyNonMembers ==
    WhitelistGateRan =>
        \A k \in DOMAIN gate_trace :
            gate_trace[k].gate = "whitelist" =>
                /\ gate_trace[k].pass <=> ~NotOnWhitelist
                /\ ~gate_trace[k].pass => poll_status = "not_on_whitelist"

\* C24 witness: a name that is not on the installed whitelist is being logged
\* as not_on_whitelist
C24_Witness ==
    /\ pc_poll = "log_write"
    /\ NotOnWhitelist
    /\ poll_status = "not_on_whitelist"

(***************************************************************************)
(* C25: what a poll takes up, in which order, and what the gates of the    *)
(* later messages of the batch see.                                        *)
(***************************************************************************)
\* the messages the provider lists, oldest first
ListedOldestFirst == SubSeq(provider, window_lo + 1, Len(provider))

\* the listed messages newer than the one the cursor names, all of them when
\* the cursor names none, oldest first
NewerThanCursor ==
    LET at == {i \in DOMAIN ListedOldestFirst :
                  ListedOldestFirst[i].sid = last_message_sid} IN
    IF at = {} THEN ListedOldestFirst
    ELSE SubSeq(ListedOldestFirst, (CHOOSE i \in at : \A j \in at : j <= i) + 1,
                Len(ListedOldestFirst))

\* a poll takes up a batch
BatchTaken == pc_poll = "poll" /\ pc_poll' = "block"

\* the batch is the new messages, and its head, the one processed first, is
\* the oldest
BatchIsNewOldestFirst ==
    BatchTaken => new_messages' = NewerThanCursor

\* the gates of the message in hand are about to read the audit log
GatesReadLog == pc_poll \in {"rate", "name"}

\* every message logged earlier in this run (all of one batch when nothing
\* arrives during the run) has its entry in the audit log
EarlierEntriesVisible ==
    GatesReadLog =>
        \A i \in DOMAIN audit_calls :
            \E k \in DOMAIN message_log :
                /\ message_log[k].phone_full = audit_calls[i].phone
                /\ message_log[k].extracted_name = audit_calls[i].name
                /\ message_log[k].message \in {m.body : m \in {provider[n] : n \in DOMAIN provider}}
                /\ message_log[k].timestamp = audit_calls[i].day

\* C25 (batch and order): the batch of a poll is exactly the messages listed
\* before the entry the cursor names, all listed messages when the cursor
\* names none, and they are processed oldest first.
C25_BatchIsNewOldestFirst == [][BatchIsNewOldestFirst]_vars

\* C25: the batch of a poll is the messages listed before the entry the
\* cursor names (all when it names none), processed oldest first, so that
\* the audit entry of an earlier message of the batch is in the log when the
\* rate-limit and duplicate gates of a later message read it.
C25_LaterGatesSeeEarlierEntries ==
    [][BatchIsNewOldestFirst]_vars /\ []EarlierEntriesVisible

(***************************************************************************)
(* C26 and C27: the duplicate gate and the rate-limit gate.                *)
(***************************************************************************)
\* the name gates are evaluated for the message in hand
NameGatesStep == pc_poll = "name" /\ pc_poll' # "name"

\* the audit entries of the sender of the message in hand dated today
SenderEntriesToday ==
    {k \in DOMAIN message_log :
        /\ message_log[k].phone_full = Head(new_messages).from_
        /\ message_log[k].timestamp = today}

\* those of them that carry the given name, letter case aside
SameNameEntries(name) ==
    {k \in SenderEntriesToday : Lower(message_log[k].extracted_name) = Lower(name)}

\* C26: the duplicate gate rejects exactly when the sender has an entry of
\* today with the same name whose status is queued, displaying or displayed;
\* an entry with any other status (a rejected message) does not make a later
\* message of the same sender and name a duplicate.
C26_DuplicateIgnoresRejected ==
    [][NameGatesStep =>
          (poll_status' = "duplicate_name_today" <=>
              \E k \in SameNameEntries(poll_name') :
                  message_log[k].status \in {"queued", "displaying", "displayed"})]_vars

\* C26 witness: the message in hand has passed the duplicate gate while the
\* audit log holds a rejected entry of its sender with its name of today
C26_Witness ==
    /\ pc_poll \in {"enqueue", "log_read", "log_write"}
    /\ poll_status # "duplicate_name_today"
    /\ \E k \in DOMAIN gate_trace : gate_trace[k] = [gate |-> "duplicate", pass |-> TRUE]
    /\ \E k \in SameNameEntries(poll_name) : message_log[k].status \in RejectionStatuses

\* the rate-limit gate is evaluated for the message in hand
RateGateStep == pc_poll = "rate" /\ pc_poll' # "rate"

\* C27: the rate-limit gate rejects exactly when max_messages_per_phone is
\* positive and the sender's audit entries of today, whatever their status,
\* number at least that many; with max_messages_per_phone = 0 it never
\* rejects.
C27_QuotaCountsEveryEntry ==
    [][RateGateStep /\ config.max_messages_per_phone >= 0 =>
          (poll_status' = "rate_limited" <=>
              /\ config.max_messages_per_phone > 0
              /\ Cardinality(SenderEntriesToday) >= config.max_messages_per_phone)]_vars

\* C27 witness: the message in hand is rate-limited by entries of rejected
\* messages alone
C27_Witness ==
    /\ pc_poll \in {"log_read", "log_write"}
    /\ poll_status = "rate_limited"
    /\ SenderEntriesToday # {}
    /\ \A k \in SenderEntriesToday : message_log[k].status \in RejectionStatuses

(***************************************************************************)
(* C28: what update_message_status changes in the audit log.               *)
(***************************************************************************)
\* update_message_status writes the log back
StatusWriteStep ==
    /\ pc_display \in {"displaying_write", "displayed_write"}
    /\ pc_display' # pc_display

\* the status the display worker is writing
WrittenStatus == IF pc_display = "displaying_write" THEN "displaying" ELSE "displayed"

\* after is before with the status and the status time of the newest entry
\* of the sender and name being displayed replaced, and nothing else: same
\* length, same order, every other entry as it was
OnlyNewestMatchChanged(before, after) ==
    LET item == currently_displaying[1]
        hits == {k \in DOMAIN before :
                    /\ before[k].phone_full = item.phone
                    /\ before[k].extracted_name = item.name} IN
    /\ Len(after) = Len(before)
    /\ \A k \in DOMAIN before :
          IF hits # {} /\ \A j \in hits : j <= k
          THEN IF k \in hits
               THEN after[k] = [before[k] EXCEPT !.status = WrittenStatus,
                                                 !.status_updated = today]
               ELSE after[k] = before[k]
          ELSE after[k] = before[k]

\* C28: a status update changes the status and the status time of the newest
\* entry whose sender and extracted name both match and nothing else: every
\* other entry, the order and the length of the log are as they were, and
\* with no matching entry the content of the log is unchanged.
C28_UpdateChangesNewestMatchOnly ==
    [][StatusWriteStep => OnlyNewestMatchChanged(message_log, message_log')]_vars

\* C28 against the list update_message_status has read
C28_UpdateOfWhatWasRead ==
    [][StatusWriteStep => OnlyNewestMatchChanged(display_logs, message_log')]_vars

(***************************************************************************)
(* C29: the audit status queued and the queue item go together.            *)
(***************************************************************************)
\* add_to_queue returns for the message in hand
EnqueueStep == pc_poll = "enqueue" /\ pc_poll' # "enqueue"

\* one item with the name and the sender of the message in hand is put at the
\* end of the queue, the first for this message, and the message goes on as
\* queued; or nothing is put on the queue and the message goes on as error
EnqueuedOnceOrError ==
    LET msg == Head(new_messages) IN
    \/ /\ poll_status' = "queued"
       /\ Len(message_queue') = Len(message_queue) + 1
       /\ SubSeq(message_queue', 1, Len(message_queue)) = message_queue
       /\ message_queue'[Len(message_queue')].name = poll_name
       /\ message_queue'[Len(message_queue')].phone = msg.from_
       /\ msg.sid \notin enqueued_sids
       /\ msg.sid \in enqueued_sids'
    \/ /\ poll_status' = "error"
       /\ message_queue' = message_queue
       /\ enqueued_sids' = enqueued_sids

\* the message with this sid is still between add_to_queue and log_message
InHand(sid) == pc_poll \in {"log_read", "log_write"} /\ Head(new_messages).sid = sid

\* the messages logged as queued are the messages an item was appended for;
\* a message logged as error has none
QueuedIffEnqueued ==
    /\ \A i \in DOMAIN audit_calls :
          /\ audit_calls[i].status = "queued" <=> audit_calls[i].sid \in enqueued_sids
          /\ audit_calls[i].status = "error" => audit_calls[i].sid \notin enqueued_sids
    /\ \A sid \in enqueued_sids :
          InHand(sid) \/ \E i \in DOMAIN audit_calls :
                            audit_calls[i].sid = sid /\ audit_calls[i].status = "queued"

\* C29: a polled message is logged with status queued if and only if exactly
\* one queue item with its extracted name and its sender was appended to the
\* display queue for it; when add_to_queue fails the message is logged with
\* status error and nothing is appended.
C29_QueuedIffOneItem ==
    [][EnqueueStep => EnqueuedOnceOrError]_vars /\ []QueuedIffEnqueued

\* C29 witness: one message has been logged as queued and another as error
C29_Witness ==
    /\ \E i \in DOMAIN audit_calls : audit_calls[i].status = "queued"
    /\ \E i \in DOMAIN audit_calls : audit_calls[i].status = "error"

(***************************************************************************)
(* C30: the format gate.                                                   *)
(***************************************************************************)
\* the format gate has been evaluated for the message in hand
FormatGateRan ==
    /\ pc_poll \in {"enqueue", "log_read", "log_write"}
    /\ \E k \in DOMAIN gate_trace : gate_trace[k].gate = "format"

\* the words of a text: its maximal runs of characters other than white space
Words(text) ==
    {i \in DOMAIN text : text[i] # " " /\ (i = 1 \/ text[i - 1] = " ")}

\* the configured word-count policy is met by the extracted name
WordPolicyMet ==
    IF config.one_word_only THEN Cardinality(Words(poll_name)) = 1
    ELSE IF config.two_words_max THEN Cardinality(Words(poll_name)) <= 2
    ELSE TRUE

\* the outcome of the format gate for the message in hand is accept exactly
\* when ok
FormatGateAccepts(ok) ==
    FormatGateRan =>
        \A k \in DOMAIN gate_trace :
            gate_trace[k].gate = "format" => (gate_trace[k].pass <=> ok)

\* C30: the format gate accepts the extracted name exactly when its word
\* count meets the configured policy (one word under one_word_only, otherwise
\* at most two under two_words_max) and the name is at most 50 characters
\* long; a hyphenated token is one word.
C30_AcceptsByWordsAndLength ==
    FormatGateAccepts(WordPolicyMet /\ Len(poll_name) <= 50)

\* C30 with the length taken after every run of white space in the name has
\* been made one space
C30_AcceptsByWordsAndCollapsedLength ==
    FormatGateAccepts(WordPolicyMet /\ Len(CollapseSpaces(poll_name)) <= 50)

(***************************************************************************)
(* C31: the blocklist cache under requests that overlap.                   *)
(***************************************************************************)
\* the cached stamp goes with the cached content: a cache that carries the
\* stamp of the file holds the content of the file
StampGoesWithContent ==
    (blocklist_cache # None /\ blocklist_file.exists
        /\ blocklist_mtime = blocklist_file.mtime)
      => blocklist_cache = Some(blocklist_file.lines)

\* the last two block / unblock calls were for different senders and both
\* reported success, and none is still under way
TwoCallsReturned ==
    /\ Len(block_hist) = 2
    /\ block_call = None
    /\ block_hist[1].ok /\ block_hist[2].ok
    /\ block_hist[1].phone # block_hist[2].phone

\* the call has taken effect on the stored list
TookEffect(c) ==
    IF c.op = "block" THEN c.phone \in StoredBlocklist ELSE c.phone \notin StoredBlocklist

\* C31: the cached stamp is never paired with content of another stamp, and
\* two block / unblock calls on different senders, overlapping or not, both
\* take effect.
C31_PairedAndBothTakeEffect ==
    /\ StampGoesWithContent
    /\ TwoCallsReturned => TookEffect(block_hist[1]) /\ TookEffect(block_hist[2])

\* C31, first part alone
C31_StampGoesWithContent == StampGoesWithContent

(***************************************************************************)
(* C32: a list file that is missing or cannot be read.                     *)
(***************************************************************************)
GateRan(trace, gate) == \E i \in DOMAIN trace : trace[i].gate = gate

GatePassed(trace, gate) == \E i \in DOMAIN trace : trace[i].gate = gate /\ trace[i].pass

\* what a reader finds in a list file now: its lines, nothing when the
\* file is missing or cannot be read
OnDisk(file) == IF file.exists /\ file.readable THEN file.lines ELSE <<>>

\* the same, an unreadable file counted with its lines when the cache
\* carries the stamp the file has now, so that the file is not opened
OnDiskOrCached(file, cache, mtime) ==
    IF file.exists /\ (file.readable \/ (cache # None /\ mtime = file.mtime))
    THEN file.lines ELSE <<>>

\* the gates of the message in hand answer as the lists wl, bl and blocked
\* demand, and the poll goes on to the next step
ListsAnswerAs(wl, bl, blocked) ==
    /\ (pc_poll = "block" /\ pc_poll' # "block") =>
          /\ GatePassed(gate_trace', "block") <=>
                ~IsBlocked(Head(new_messages).from_, JsonList(blocked))
          /\ pc_poll' \in {"rate", "log_read"}
    /\ (pc_poll = "name" /\ pc_poll' # "name") =>
          /\ GateRan(gate_trace', "whitelist") =>
                (GatePassed(gate_trace', "whitelist") <=>
                    \/ NonBlankLines(wl) = <<>>
                    \/ Strip(Lower(poll_name')) \in Range(NonBlankLines(wl)))
          /\ GateRan(gate_trace', "profanity") =>
                (GatePassed(gate_trace', "profanity") <=>
                    ~(/\ NonBlankLines(bl) # <<>>
                      /\ MatchesAny(NonBlankLines(bl), Head(new_messages).body)))
          /\ pc_poll' \in {"enqueue", "log_read"}

\* C32 as stated: every access to a policy list answers from what the
\* backing file holds at that moment, nothing (no sender blocked, no
\* whitelist restriction, no profanity term) when the file is missing or
\* unreadable, and the poll continues
C32_AnswersFromReadableFile ==
    [][ListsAnswerAs(OnDisk(whitelist_file), OnDisk(blacklist_file),
                     OnDisk(blocklist_file))]_vars

\* C32 amended: every access to a policy list answers from what the backing
\* file holds at that moment, nothing when the file is missing, or is
\* unreadable and has to be opened; an unreadable file whose stamp is the
\* cached one is not opened and answers with its lines; the poll continues
C32_AnswersFromFileOrCache ==
    [][ListsAnswerAs(OnDiskOrCached(whitelist_file, whitelist_cache, whitelist_mtime),
                     OnDiskOrCached(blacklist_file, blacklist_cache, blacklist_mtime),
                     OnDiskOrCached(blocklist_file, blocklist_cache, blocklist_mtime))]_vars

\* C32 witness: two senders text the same name; the first is enqueued while
\* whitelist.txt is missing, the operator then creates the file without that
\* name, and the second is rejected as not on the whitelist
C32_Witness ==
    /\ Len(provider) = 2
    /\ provider[1].body = provider[2].body
    /\ provider[1].from_ # provider[2].from_
    /\ enqueued_sids = {FirstSid}
    /\ gate_runs = <<FirstSid, FirstSid + 1>>
    /\ poll_status = "not_on_whitelist"
    /\ budget.edit = MaxEdits - 1
    /\ whitelist_file = [exists |-> TRUE, readable |-> TRUE, mtime |-> 1,
                         lines |-> WhitelistLines]

(***************************************************************************)
(* C33: the enqueue against the idle display worker.                       *)
(***************************************************************************)
\* poll_twilio is at add_to_queue while display_worker has nothing to show
EnqueueWhileIdle ==
    /\ pc_poll = "enqueue"
    /\ pc_display \in {"check", "sleep"}
    /\ message_queue = <<>>

\* add_to_queue has appended the item of the message in hand
EnqueueDone ==
    /\ pc_poll = "log_read"
    /\ Head(new_messages).sid \in enqueued_sids

\* C33: under fair scheduling an enqueue attempted by the ingestion worker
\* while the display worker is idle eventually acquires queue_lock and
\* appends its item.
C33_EnqueueAcquiresLock == EnqueueWhileIdle ~> EnqueueDone

(***************************************************************************)
(* C34: a cursor that cannot be saved.                                     *)
(***************************************************************************)
\* the step is one in which save_last_sid failed
SaveFailed == budget'.savefail < budget.savefail

\* C34: when save_last_sid fails for a message, the cursor in memory is
\* that message's id all the same and the file is not, the loop goes on,
\* and no message id is started through the gates a second time by that or
\* any later poll.
C34_CursorAdvancesWithoutSave ==
    /\ [][(SaveFailed /\ pc_poll = "log_write") =>
             /\ last_message_sid' = Head(new_messages).sid
             /\ sid_file' # Head(new_messages).sid
             /\ pc_poll' = AfterMessage(Tail(new_messages))]_vars
    /\ []NoRepeat(gate_runs)

\* C34 witness: both messages are done with, the cursor in memory is the
\* second, and the file, never written, still names the message from before
\* the process started
C34_Witness ==
    /\ gate_runs = <<FirstSid, FirstSid + 1>>
    /\ pc_poll = "poll"
    /\ last_message_sid = FirstSid + 1
    /\ sid_file = OldSid
    /\ budget.savefail = 0

(***************************************************************************)
(* C35: where an accepted item is.                                         *)
(***************************************************************************)
\* the item with this number is the one in currently_displaying
Held(n) == currently_displaying # None /\ currently_displaying[1].seq = n

\* in how many places the item is: the queue, position by position, and
\* currently_displaying
Places(n) == TimesWaiting(n) + (IF Held(n) THEN 1 ELSE 0)

InOnePlace ==
    /\ \A n \in 1..enq_count :
          IF CycleOver(n)
          THEN /\ TimesWaiting(n) = 0
               /\ Held(n) => pc_display = "finish"
          ELSE Places(n) = 1
    /\ currently_displaying # None => currently_displaying[1].seq \in 1..enq_count
    /\ pc_display \in {"check", "sleep", "stopped"} => currently_displaying = None

\* the step ends a cycle, or is the one in which the worker finds the
\* queue empty
CycleEndsOrQueueEmpty ==
    \/ pc_display = "finish" /\ pc_display' # "finish"
    \/ pc_display = "check" /\ pc_display' = "sleep"

\* C35: in every state an accepted item whose display cycle is not over is
\* in exactly one place, the queue (once) or currently_displaying; an item
\* whose cycle is over is in the queue no more and in currently_displaying
\* only until the worker's next statement clears it; currently_displaying
\* is None after the step that ends a cycle and after the step in which the
\* worker finds the queue empty.
C35_ItemInOnePlace ==
    /\ []InOnePlace
    /\ [][CycleEndsOrQueueEmpty => currently_displaying' = None]_vars

\* C35 witness: the second item is on its way to the display, the first is
\* done with and cleared, a third waits in the queue
C35_Witness ==
    /\ pc_display = "show"
    /\ cycles_done = 1
    /\ Held(2)
    /\ TimesWaiting(3) = 1
    /\ Places(1) = 0

(***************************************************************************)
(* C36: rejection entries and the display worker's status updates.         *)
(***************************************************************************)
\* the statuses poll_twilio logs for a message that gets no queue item
NotShownStatuses == RejectionStatuses \cup {"error"}

\* C36: a status update of the display worker leaves every entry that it
\* read with a rejection status (blocked, rate_limited, duplicate_name_today,
\* invalid_format, not_on_whitelist, profanity, error) as it read it: none
\* of them is written back as displaying or displayed.
C36_RejectionIsTerminal ==
    [][StatusWriteStep =>
         \A k \in DOMAIN display_logs :
             display_logs[k].status \in NotShownStatuses =>
                 /\ k \in DOMAIN message_log'
                 /\ message_log'[k].status = display_logs[k].status]_vars

(***************************************************************************)
(* C37: entries in status displaying, and entries left behind.             *)
(***************************************************************************)
DisplayingEntries == {i \in DOMAIN message_log : message_log[i].status = "displaying"}

\* the cycle of the item with this number is over and the worker has let
\* the item go
CycleCompleted(n) ==
    /\ \E k \in 1..cycles_done : dequeued[k] = n
    /\ ~Held(n)

\* the entry written for an item is queued or displaying although the
\* item's cycle is completed
LeftBehind ==
    \E i \in DOMAIN message_log :
        /\ message_log[i].item > 0
        /\ message_log[i].status \in {"queued", "displaying"}
        /\ CycleCompleted(message_log[i].item)

AtMostOneDisplaying == Cardinality(DisplayingEntries) <= 1

\* C37: in every state at most one entry of the audit log has status
\* displaying, and no entry stays queued or displaying for ever once the
\* display cycle of its item is completed.
C37_OneDisplayingNoneLeftBehind ==
    /\ []AtMostOneDisplaying
    /\ []<>~LeftBehind

\* C37, first part alone
C37_AtMostOneDisplaying == []AtMostOneDisplaying

\* C37, second part alone
C37_NoneLeftBehind == []<>~LeftBehind

(***************************************************************************)
(* C38: the gates of the test route.                                       *)
(***************************************************************************)
\* the test route has run its gates and goes on to add_to_queue
SubmitAccepts == pc_submit = "idle" /\ pc_submit' = "enqueue"

\* C38: the test route accepts a candidate for the queue only if, at that
\* moment, its sender is not blocked, is not over the rate limit and has
\* not had the same name accepted today.
C38_TestRouteAppliesSenderGates ==
    [][SubmitAccepts =>
         /\ submit_phone' \notin StoredBlocklist
         /\ ~RateLimited(GetMessageCount(message_log, submit_phone', today),
                         config.max_messages_per_phone)
         /\ ~HasSentNameToday(message_log, submit_phone', submit_name', today)]_vars

\* C38, one gate at a time
C38_BlockedNotAccepted ==
    [][SubmitAccepts => submit_phone' \notin StoredBlocklist]_vars

C38_OverLimitNotAccepted ==
    [][SubmitAccepts =>
         ~RateLimited(GetMessageCount(message_log, submit_phone', today),
                      config.max_messages_per_phone)]_vars

C38_RepeatNotAccepted ==
    [][SubmitAccepts =>
         ~HasSentNameToday(message_log, submit_phone', submit_name', today)]_vars

(***************************************************************************)
(* C39: what a queue status shows.                                         *)
(***************************************************************************)
\* C39: every status get_queue_status returns holds the item on display and
\* the waiting items as they are together at the moment it is taken, with or
\* without the lock, and queue_length is the number of waiting items it
\* holds; so an empty status is returned only while nothing waits and
\* nothing is displayed.
C39_StatusIsStateAtOneInstant ==
    [][StatusTaken =>
         /\ queue_status' # None
         /\ queue_status'[1].currently_displaying = currently_displaying
         /\ queue_status'[1].queue.items = message_queue
         /\ queue_status'[1].queue_length = Len(queue_status'[1].queue.items)]_vars

\* C39 witness: a status taken while one item is on display and another
\* waits, and still to be seen after the worker is done
C39_Witness ==
    /\ queue_status # None
    /\ queue_status[1].currently_displaying # None
    /\ queue_status[1].queue_length = 1
    /\ queue_status[1].currently_displaying[1].seq = 1
    /\ queue_status[1].queue.items[1].seq = 2

(***************************************************************************)
(* C40: the history cleared.                                               *)
(***************************************************************************)
\* the step is a call of /api/messages/clear
ClearStep == budget'.clear < budget.clear

\* log_message writes the log back
AppendStep == pc_poll = "log_write" /\ pc_poll' # "log_write"

\* an entry without what update_message_status changes
EntryAsLogged(entry) == [entry EXCEPT !.status = "", !.status_updated = NoTime]

\* every entry of the log after the step was in the log before it, or is
\* the one log_message appends in this step
NothingComesBack ==
    \A i \in DOMAIN message_log' :
        \/ \E k \in DOMAIN message_log :
              EntryAsLogged(message_log[k]) = EntryAsLogged(message_log'[i])
        \/ AppendStep /\ i = Len(message_log')

\* C40: a clear leaves the audit log empty and the queue, the item on
\* display, the cursor and the policy lists as they were; and no other step
\* puts an entry into the log that was not in it before the step, except
\* the entry log_message appends: a status update adds none, and what a
\* clear has removed does not come back with a later write.
C40_ClearedStaysCleared ==
    [][/\ ClearStep =>
            /\ message_log' = <<>>
            /\ UNCHANGED <<queue_vars, cursor_vars, list_vars, blocklist_vars>>
       /\ ~ClearStep => NothingComesBack]_vars

\* C40, the clear itself
C40_ClearEmptiesLogOnly ==
    [][ClearStep =>
            /\ message_log' = <<>>
            /\ UNCHANGED <<queue_vars, cursor_vars, list_vars, blocklist_vars>>]_vars

\* C40, a status update that reads the log after the clear adds no entry
C40_UpdateAfterClearAddsNothing ==
    [][(StatusWriteStep /\ display_logs = <<>>) => message_log' = <<>>]_vars

=============================================================================
